---------------------------- MODULE Spec2Model ----------------------------
(***************************************************************************)
(* Verification model of vgmedical-verification: the supply matcher, the   *)
(* three verifiers and the verification engine                             *)
(* (apps/verification/engine.py), with the models they read and write      *)
(* (apps/document_processor/models.py).                                    *)
(*                                                                         *)
(* Strings are sequences of one-character strings.  Similarity scores are  *)
(* exact rationals [num, den]; percentages and the overall score are       *)
(* rationals too, the score being kept in hundredths after rounding.       *)
(***************************************************************************)
EXTENDS Integers, Sequences, FiniteSets, TLC

(***************************************************************************)
(* Characters and strings                                                  *)
(***************************************************************************)

\* The characters of the model, in code point order (sorted() compares
\* strings by code point).
Alphabet ==
    << " ", "!", "-", ".", "1", "2",
       "A", "B", "C", "D", "E", "M", "N", "R", "S", "T", "X",
       "a", "b", "c", "d", "e", "m", "n", "r", "s", "t", "x",
       "×", "á" >>

Ord(c) == CHOOSE i \in 1..Len(Alphabet) : Alphabet[i] = c

Digits == {"1", "2"}
UpperLetters == << "A", "B", "C", "D", "E", "M", "N", "R", "S", "T", "X" >>
LowerLetters == << "a", "b", "c", "d", "e", "m", "n", "r", "s", "t", "x" >>

Range(f) == { f[i] : i \in DOMAIN f }

IsSpace(c) == c = " "
IsDigit(c) == c \in Digits
\* \w of Python's re on str: alphanumerics and the underscore.
IsWord(c) == c \in Digits \cup Range(UpperLetters) \cup Range(LowerLetters) \cup {"á"}

\* unicodedata.normalize('NFKD', c) with the combining marks dropped.
StripAccent(c) == IF c = "á" THEN "a" ELSE c

\* str.lower() and str.upper() on one character.
LowerChar(c) ==
    IF c \in Range(UpperLetters)
    THEN LowerLetters[CHOOSE i \in DOMAIN UpperLetters : UpperLetters[i] = c]
    ELSE c

UpperChar(c) ==
    IF c \in Range(LowerLetters)
    THEN UpperLetters[CHOOSE i \in DOMAIN LowerLetters : LowerLetters[i] = c]
    ELSE c

\* unicodedata.normalize('NFKD', s) without the combining characters.
StripAccents(s) == [i \in 1..Len(s) |-> StripAccent(s[i])]

\* str.lower() and str.upper()
Lower(s) == [i \in 1..Len(s) |-> LowerChar(s[i])]
Upper(s) == [i \in 1..Len(s) |-> UpperChar(s[i])]

RECURSIVE LStrip(_)
LStrip(s) == IF s # << >> /\ IsSpace(Head(s)) THEN LStrip(Tail(s)) ELSE s

RECURSIVE RStrip(_)
RStrip(s) ==
    IF s # << >> /\ IsSpace(s[Len(s)]) THEN RStrip(SubSeq(s, 1, Len(s) - 1)) ELSE s

\* str.strip()
Strip(s) == RStrip(LStrip(s))

\* re.sub(r'\s+', ' ', s)
RECURSIVE CollapseSpaces(_)
CollapseSpaces(s) ==
    IF s = << >> THEN << >>
    ELSE IF IsSpace(Head(s))
         THEN << " " >> \o CollapseSpaces(LStrip(s))
         ELSE << Head(s) >> \o CollapseSpaces(Tail(s))

StartsWith(s, p) == Len(p) <= Len(s) /\ SubSeq(s, 1, Len(p)) = p

\* str.replace(old, new): leftmost, non-overlapping occurrences (old non-empty).
RECURSIVE Replace(_, _, _)
Replace(s, old, new) ==
    IF s = << >> THEN << >>
    ELSE IF StartsWith(s, old)
         THEN new \o Replace(SubSeq(s, Len(old) + 1, Len(s)), old, new)
         ELSE << Head(s) >> \o Replace(Tail(s), old, new)

\* The length of the longest prefix of s made of digits, of spaces, of
\* characters other than spaces.
RECURSIVE RunDigits(_)
RunDigits(s) == IF s # << >> /\ IsDigit(Head(s)) THEN 1 + RunDigits(Tail(s)) ELSE 0

RECURSIVE RunSpaces(_)
RunSpaces(s) == IF s # << >> /\ IsSpace(Head(s)) THEN 1 + RunSpaces(Tail(s)) ELSE 0

RECURSIVE RunNonSpaces(_)
RunNonSpaces(s) ==
    IF s # << >> /\ ~IsSpace(Head(s)) THEN 1 + RunNonSpaces(Tail(s)) ELSE 0

Drop(s, n) == SubSeq(s, n + 1, Len(s))
Take(s, n) == SubSeq(s, 1, n)

\* re.sub(r'(\d+)\s*SEP\s*(\d+)', r'\1x\2', s) for a one-character SEP:
\* leftmost non-overlapping matches, every quantifier greedy.
RECURSIVE SubDimension(_, _)
SubDimension(s, sep) ==
    IF s = << >> THEN << >>
    ELSE LET d1 == RunDigits(s)
             r1 == Drop(s, d1)
             w1 == RunSpaces(r1)
             r2 == Drop(r1, w1)
             r3 == Drop(r2, 1)
             w2 == RunSpaces(r3)
             r4 == Drop(r3, w2)
             d2 == RunDigits(r4)
         IN  IF d1 > 0 /\ r2 # << >> /\ Head(r2) = sep /\ d2 > 0
             THEN Take(s, d1) \o << "x" >> \o Take(r4, d2)
                      \o SubDimension(Drop(r4, d2), sep)
             ELSE << Head(s) >> \o SubDimension(Tail(s), sep)

\* str.split(): the maximal runs of non-space characters.
RECURSIVE SplitTokens(_)
SplitTokens(s) ==
    LET t == LStrip(s)
        n == RunNonSpaces(t)
    IN  IF t = << >> THEN << >>
        ELSE << Take(t, n) >> \o SplitTokens(Drop(t, n))

\* Python's str ordering: code point by code point, a prefix first.
RECURSIVE StrLess(_, _)
StrLess(a, b) ==
    IF b = << >> THEN FALSE
    ELSE IF a = << >> THEN TRUE
    ELSE IF Head(a) = Head(b) THEN StrLess(Tail(a), Tail(b))
    ELSE Ord(Head(a)) < Ord(Head(b))

RECURSIVE InsertSorted(_, _)
InsertSorted(t, ts) ==
    IF ts = << >> THEN << t >>
    ELSE IF StrLess(t, Head(ts)) THEN << t >> \o ts
    ELSE << Head(ts) >> \o InsertSorted(t, Tail(ts))

\* sorted(tokens)
RECURSIVE SortTokens(_)
SortTokens(ts) ==
    IF ts = << >> THEN << >> ELSE InsertSorted(Head(ts), SortTokens(Tail(ts)))

\* " ".join(tokens)
RECURSIVE JoinTokens(_)
JoinTokens(ts) ==
    IF ts = << >> THEN << >>
    ELSE IF Len(ts) = 1 THEN Head(ts)
    ELSE Head(ts) \o << " " >> \o JoinTokens(Tail(ts))

(***************************************************************************)
(* rapidfuzz                                                               *)
(***************************************************************************)

Max(a, b) == IF a >= b THEN a ELSE b

\* One row of the longest-common-subsequence table of a and b: the row of
\* a[i], from the row before it.
RECURSIVE LcsRow(_, _, _, _, _)
LcsRow(prev, ch, b, j, cur) ==
    IF j > Len(b) THEN cur
    ELSE LET v == IF ch = b[j] THEN prev[j] + 1
                  ELSE Max(prev[j + 1], cur[j])
         IN  LcsRow(prev, ch, b, j + 1, Append(cur, v))

RECURSIVE LcsRows(_, _, _, _)
LcsRows(a, b, i, prev) ==
    IF i > Len(a) THEN prev
    ELSE LcsRows(a, b, i + 1, LcsRow(prev, a[i], b, 1, << 0 >>))

LcsLen(a, b) == LcsRows(a, b, 1, [j \in 1..Len(b) + 1 |-> 0])[Len(b) + 1]

RECURSIVE Gcd(_, _)
Gcd(a, b) == IF b = 0 THEN a ELSE Gcd(b, a % b)

\* The rational number n/d (n >= 0, d > 0) in lowest terms, so that equal
\* numbers are equal values.
Rat(n, d) == [num |-> n \div Gcd(n, d), den |-> d \div Gcd(n, d)]
RatLess(p, q) == p.num * q.den < q.num * p.den
RatEq(p, q) == p.num * q.den = q.num * p.den
RatLeq(p, q) == p.num * q.den <= q.num * p.den
RatOfInt(n) == Rat(n, 1)

\* fuzz.ratio(a, b): the normalized Indel similarity, 100 * 2*LCS / (|a|+|b|),
\* and 100 for two empty strings.
ratio(a, b) ==
    IF Len(a) + Len(b) = 0 THEN Rat(100, 1)
    ELSE Rat(200 * LcsLen(a, b), Len(a) + Len(b))

\* fuzz.token_sort_ratio(a, b)
token_sort_ratio(a, b) ==
    ratio(JoinTokens(SortTokens(SplitTokens(a))),
          JoinTokens(SortTokens(SplitTokens(b))))

(***************************************************************************)
(* SupplyMatcher                                                           *)
(***************************************************************************)

\* re.sub(r'[^\w\s\d.,x×-]', '', s)
RECURSIVE RemoveSpecialChars(_)
RemoveSpecialChars(s) ==
    IF s = << >> THEN << >>
    ELSE IF \/ IsWord(Head(s)) \/ IsSpace(Head(s)) \/ IsDigit(Head(s))
            \/ Head(s) \in {".", ",", "x", "×", "-"}
         THEN << Head(s) >> \o RemoveSpecialChars(Tail(s))
         ELSE RemoveSpecialChars(Tail(s))

\* SupplyMatcher._normalize_name.  The replacements of a word by itself
\* ('mm', 'cm', 'tornillo', ...) change nothing and are left out.
SupplyMatcher_normalize_name(name) ==
    IF name = << >> THEN << >>
    ELSE LET lowered  == Strip(Lower(StripAccents(name)))
             cleaned  == CollapseSpaces(RemoveSpecialChars(lowered))
             measured == SubDimension(SubDimension(cleaned, "x"), "×")
             replaced == Replace(measured,
                                 << "s", "t", "a", "n", "d", "a", "r", "d" >>,
                                 << "e", "s", "t", "a", "n", "d", "a", "r" >>)
         IN  Strip(replaced)

\* A Python dict as the sequence of its items in insertion order: d[k] = v.
RECURSIVE DictPut(_, _, _)
DictPut(d, k, v) ==
    IF d = << >> THEN << [key |-> k, val |-> v] >>
    ELSE IF Head(d).key = k THEN << [key |-> k, val |-> v] >> \o Tail(d)
    ELSE << Head(d) >> \o DictPut(Tail(d), k, v)

LowerAll(names) == [i \in 1..Len(names) |-> Lower(names[i])]

\* SupplyMatcher._load_equivalences over the rows of SupplyEquivalence.
RECURSIVE LoadRows(_, _)
LoadRows(rows, d) ==
    IF rows = << >> THEN d
    ELSE LoadRows(Tail(rows),
                  DictPut(d, Lower(Head(rows).canonical_name),
                          LowerAll(Head(rows).aliases)))

load_equivalences(rows) == LoadRows(rows, << >>)

InSeq(x, s) == \E i \in 1..Len(s) : s[i] = x

\* The result of find_match: None, or (name, confidence).
None == [found |-> FALSE, name |-> << >>, confidence |-> Rat(0, 1)]
Match(n, c) == [found |-> TRUE, name |-> n, confidence |-> c]

fuzzy_threshold == 85

\* Step 1 of find_match: the first candidate equal to the target after
\* normalization, with confidence 100.
RECURSIVE ExactMatch(_, _)
ExactMatch(clean, candidate_names) ==
    IF candidate_names = << >> THEN None
    ELSE IF clean = SupplyMatcher_normalize_name(Head(candidate_names))
         THEN Match(Head(candidate_names), Rat(100, 1))
         ELSE ExactMatch(clean, Tail(candidate_names))

\* A result if it is a match, and the other result if it is None.
OrElse(m, otherwise) == IF m.found THEN m ELSE otherwise

\* candidate_clean in aliases or candidate_clean == canonical
IsEquivalent(candidate_clean, canonical, aliases) ==
    candidate_clean = canonical \/ InSeq(candidate_clean, aliases)

\* The inner loop of step 2, for one entry of the table.
RECURSIVE EquivalentCandidate(_, _, _)
EquivalentCandidate(canonical, aliases, candidate_names) ==
    IF candidate_names = << >> THEN None
    ELSE IF IsEquivalent(SupplyMatcher_normalize_name(Head(candidate_names)),
                         canonical, aliases)
         THEN Match(Head(candidate_names), Rat(95, 1))
         ELSE EquivalentCandidate(canonical, aliases, Tail(candidate_names))

\* Step 2 for one entry: it is looked at when the target is one of its
\* aliases.
EntryMatch(e, clean, candidate_names) ==
    IF InSeq(clean, e.val)
    THEN EquivalentCandidate(e.key, e.val, candidate_names)
    ELSE None

\* Step 2 of find_match: the entries of the table in order.
RECURSIVE EquivalenceMatch(_, _, _)
EquivalenceMatch(equivalences, clean, candidate_names) ==
    IF equivalences = << >> THEN None
    ELSE OrElse(EntryMatch(Head(equivalences), clean, candidate_names),
                EquivalenceMatch(Tail(equivalences), clean, candidate_names))

\* The best of the best so far and a choice with its score: the choice
\* when it is the first or scores higher.
Better(best, choice, score) ==
    IF ~best.found \/ RatLess(best.confidence, score)
    THEN Match(choice, score)
    ELSE best

\* process.extractOne(query, choices, scorer=fuzz.token_sort_ratio): the
\* first choice with the highest score, None for no choices.
RECURSIVE ExtractBest(_, _, _)
ExtractBest(query, choices, best) ==
    IF choices = << >> THEN best
    ELSE ExtractBest(query, Tail(choices),
                     Better(best, Head(choices),
                            token_sort_ratio(query, Head(choices))))

extractOne(query, choices) == ExtractBest(query, choices, None)

NormalizeAll(names) ==
    [i \in 1..Len(names) |-> SupplyMatcher_normalize_name(names[i])]

\* The loop of step 3 that finds the original name of the best choice.
RECURSIVE OriginalName(_, _, _)
OriginalName(candidate_names, best_clean, score) ==
    IF candidate_names = << >> THEN None
    ELSE IF SupplyMatcher_normalize_name(Head(candidate_names)) = best_clean
         THEN Match(Head(candidate_names), score)
         ELSE OriginalName(Tail(candidate_names), best_clean, score)

\* What step 3 makes of the best choice: the candidate it stands for when
\* its score reaches the threshold.
FuzzyResult(best_match, candidate_names) ==
    IF best_match.found
       /\ RatLeq(Rat(fuzzy_threshold, 1), best_match.confidence)
    THEN OriginalName(candidate_names, best_match.name, best_match.confidence)
    ELSE None

\* The same without the threshold.
FuzzyResult_no_threshold(best_match, candidate_names) ==
    IF best_match.found
    THEN OriginalName(candidate_names, best_match.name, best_match.confidence)
    ELSE None

\* Step 3 without its threshold: the best choice is returned whatever its score.
FuzzyMatch_no_threshold(clean, candidate_names) ==
    FuzzyResult_no_threshold(extractOne(clean, NormalizeAll(candidate_names)),
                             candidate_names)

\* Step 3 of find_match.
FuzzyMatch(clean, candidate_names) ==
    FuzzyResult(extractOne(clean, NormalizeAll(candidate_names)),
                candidate_names)

\* The three steps of find_match for the normalized target.
FindMatchClean(equivalences, supply_name_clean, candidate_names) ==
    OrElse(ExactMatch(supply_name_clean, candidate_names),
           OrElse(EquivalenceMatch(equivalences, supply_name_clean,
                                   candidate_names),
                  FuzzyMatch(supply_name_clean, candidate_names)))

\* The three steps with the second before the first.
FindMatchClean_known_first(equivalences, supply_name_clean, candidate_names) ==
    OrElse(EquivalenceMatch(equivalences, supply_name_clean, candidate_names),
           OrElse(ExactMatch(supply_name_clean, candidate_names),
                  FuzzyMatch(supply_name_clean, candidate_names)))

\* find_match with the known equivalences looked up before the exact names.
find_match_known_first(equivalences, supply_name, candidate_names) ==
    FindMatchClean_known_first(equivalences,
                               SupplyMatcher_normalize_name(supply_name),
                               candidate_names)

\* SupplyMatcher.find_match of a matcher whose table is `equivalences`.
find_match(equivalences, supply_name, candidate_names) ==
    FindMatchClean(equivalences, SupplyMatcher_normalize_name(supply_name),
                   candidate_names)

(***************************************************************************)
(* fuzz.partial_ratio                                                      *)
(***************************************************************************)

RatMax(p, q) == IF RatLess(p, q) THEN q ELSE p

RECURSIVE RatMaxOf(_)
RatMaxOf(S) ==
    IF S = {} THEN Rat(0, 1)
    ELSE LET x == CHOOSE y \in S : TRUE IN RatMax(x, RatMaxOf(S \ {x}))

\* The windows of the longer string s2 that the shorter s1 is aligned with:
\* its prefixes shorter than s1, its substrings as long as s1 and its
\* suffixes no longer than s1; a window that ends (a prefix, a substring)
\* or starts (a suffix) with a character s1 does not hold is skipped.
PartialWindows(s1, s2) ==
    LET len1 == Len(s1)
        len2 == Len(s2)
        chars == Range(s1)
    IN  { SubSeq(s2, 1, i) : i \in { k \in 1..(len1 - 1) : s2[k] \in chars } }
          \cup { SubSeq(s2, i + 1, i + len1) :
                    i \in { k \in 0..(len2 - len1 - 1) : s2[k + len1] \in chars } }
          \cup { SubSeq(s2, i + 1, len2) :
                    i \in { k \in (len2 - len1)..(len2 - 1) : s2[k + 1] \in chars } }

\* _partial_ratio_impl(s1, s2), s1 no longer than s2.
partial_ratio_impl(s1, s2) ==
    RatMaxOf({ ratio(s1, w) : w \in PartialWindows(s1, s2) })

\* The end of partial_ratio: strings of one length are also aligned the
\* other way round unless the score is 100 already.
PartialBothWays(res, shorter, longer) ==
    IF res # Rat(100, 1) /\ Len(shorter) = Len(longer)
    THEN RatMax(res, partial_ratio_impl(longer, shorter))
    ELSE res

\* fuzz.partial_ratio(s1, s2)
partial_ratio(s1, s2) ==
    IF s1 = << >> /\ s2 = << >> THEN Rat(100, 1)
    ELSE IF Len(s1) <= Len(s2)
         THEN PartialBothWays(partial_ratio_impl(s1, s2), s1, s2)
         ELSE PartialBothWays(partial_ratio_impl(s2, s1), s2, s1)

(***************************************************************************)
(* Documents                                                               *)
(***************************************************************************)

\* dict.get(key, default) on a dict modelled as a record.
Get(d, k, default) == IF k \in DOMAIN d THEN d[k] ELSE default

INTERNAL == "internal"
HOSPITAL == "hospital"
DESCRIPTION == "description"
DocumentTypes == << INTERNAL, HOSPITAL, DESCRIPTION >>

\* Document.extracted_date = None
NoDate == "None"

\* case.documents.all(): the rows of Document of the case.
DocumentsOf(documents, case) == { doc \in documents : doc.surgical_case = case }

(***************************************************************************)
(* BasicDataVerifier                                                       *)
(***************************************************************************)

BasicFields ==
    << "patient_name", "patient_id", "date", "city", "doctor", "procedure" >>

\* The titles BasicDataVerifier._normalize_name removes, in its order.
titles ==
    << << "D", "R", "." >>, << "D", "R", "A", "." >>, << "D", "R" >>,
       << "D", "R", "A" >>, << "M", "D" >>, << "M", ".", "D", "." >> >>

RECURSIVE RemoveTitles(_, _)
RemoveTitles(normalized, ts) ==
    IF ts = << >> THEN normalized
    ELSE RemoveTitles(Strip(Replace(normalized, Head(ts), << >>)), Tail(ts))

\* BasicDataVerifier._normalize_name
BasicDataVerifier_normalize_name(name) ==
    IF name = << >> THEN << >>
    ELSE RemoveTitles(CollapseSpaces(Strip(Upper(StripAccents(name)))), titles)

\* set(normalized_values.values()) without '' in _verify_name_field.
NameUniqueValues(values) ==
    { BasicDataVerifier_normalize_name(values[t]) : t \in DOMAIN values } \ { << >> }

\* The values list(unique_values)[0] can be: a set of str is iterated in
\* the order of the hashes, which differ from one process to the next.
FirstOf(unique_values) ==
    IF Cardinality(unique_values) <= 1 THEN { << >> } ELSE unique_values

BaseNames(values) == FirstOf(NameUniqueValues(values))

similarity_threshold == 85

\* The comparison of _verify_name_field over the set of distinct names.
NameResult(values, unique_values, base_name) ==
    IF Cardinality(unique_values) <= 1
    THEN [match |-> TRUE, values |-> values]
    ELSE IF \E name \in unique_values :
                RatLess(ratio(base_name, name), Rat(similarity_threshold, 1))
         THEN [match |-> FALSE, discrepancy |-> "Nombres diferentes",
               values |-> values]
         ELSE [match |-> TRUE, values |-> values,
               note |-> "Coincidencia por similitud"]

\* BasicDataVerifier._verify_name_field, base_name being list(unique_values)[0].
verify_name_field(values, base_name) ==
    NameResult(values, NameUniqueValues(values), base_name)

\* re.sub(r'[^\d]', '', value)
RECURSIVE KeepDigits(_)
KeepDigits(s) ==
    IF s = << >> THEN << >>
    ELSE IF IsDigit(Head(s)) THEN << Head(s) >> \o KeepDigits(Tail(s))
    ELSE KeepDigits(Tail(s))

\* BasicDataVerifier._verify_id_field
verify_id_field(values) ==
    LET unique_ids == { KeepDigits(values[t]) : t \in DOMAIN values } \ { << >> }
    IN  IF Cardinality(unique_ids) <= 1
        THEN [match |-> TRUE, values |-> values]
        ELSE [match |-> FALSE, discrepancy |-> "IDs diferentes", values |-> values]

\* BasicDataVerifier._verify_date_field: str(value) of the dates that are set.
verify_date_field(values) ==
    LET unique_dates == { values[t] : t \in DOMAIN values } \ { NoDate }
    IN  IF Cardinality(unique_dates) <= 1
        THEN [match |-> TRUE, values |-> values]
        ELSE [match |-> FALSE, discrepancy |-> "Fechas diferentes",
              values |-> values]

procedure_threshold == 70

\* The loop of _verify_procedure_field over non_empty_values[1:].
RECURSIVE ProcedureMismatch(_, _)
ProcedureMismatch(base_proc, procs) ==
    IF procs = << >> THEN FALSE
    ELSE IF RatLess(partial_ratio(Lower(base_proc), Lower(Head(procs))),
                    Rat(procedure_threshold, 1))
         THEN TRUE
         ELSE ProcedureMismatch(base_proc, Tail(procs))

\* [v for v in values.values() if v], values being filled in the order of
\* DocumentTypes.
RECURSIVE NonEmptyValues(_, _)
NonEmptyValues(values, types) ==
    IF types = << >> THEN << >>
    ELSE (IF Head(types) \in DOMAIN values /\ values[Head(types)] # << >>
          THEN << values[Head(types)] >> ELSE << >>)
             \o NonEmptyValues(values, Tail(types))

\* BasicDataVerifier._verify_procedure_field
verify_procedure_field(values) ==
    LET non_empty_values == NonEmptyValues(values, DocumentTypes)
    IN  IF Len(non_empty_values) < 2
        THEN [match |-> TRUE, values |-> values]
        ELSE IF ProcedureMismatch(Head(non_empty_values), Tail(non_empty_values))
             THEN [match |-> FALSE,
                   discrepancy |-> "Procedimientos muy diferentes",
                   values |-> values]
             ELSE [match |-> TRUE, values |-> values]

\* BasicDataVerifier._verify_text_field
verify_text_field(field_name, values) ==
    IF \A t \in DOMAIN values : values[t] = << >>
    THEN [match |-> FALSE, discrepancy |-> "vacio en todos los documentos",
          values |-> values]
    ELSE IF field_name = "procedure" THEN verify_procedure_field(values)
    ELSE LET normalized_values ==
                 { Strip(Upper(values[t])) :
                       t \in { u \in DOMAIN values : values[u] # << >> } }
         IN  IF Cardinality(normalized_values) <= 1
             THEN [match |-> TRUE, values |-> values]
             ELSE [match |-> FALSE, discrepancy |-> "diferentes",
                   values |-> values]

\* doc_data of BasicDataVerifier.verify_case: the six fields by document type.
DocData(docs) ==
    [t \in { doc.document_type : doc \in docs } |->
        LET doc == CHOOSE x \in docs : x.document_type = t
        IN  [patient_name |-> doc.extracted_patient_name,
             patient_id |-> doc.extracted_patient_id,
             date |-> doc.extracted_date,
             city |-> doc.extracted_city,
             doctor |-> doc.extracted_doctor,
             procedure |-> doc.extracted_procedure]]

\* The values of _verify_field: the field by document type.
FieldValues(field_name, doc_data) == [t \in DOMAIN doc_data |-> doc_data[t][field_name]]

\* BasicDataVerifier._verify_field
verify_field(field_name, doc_data, base_name) ==
    LET values == FieldValues(field_name, doc_data)
    IN  IF Cardinality(DOMAIN values) < 3
        THEN [match |-> FALSE, discrepancy |-> "faltante en algunos documentos",
              values |-> values]
        ELSE IF field_name \in {"patient_name", "doctor"}
             THEN verify_name_field(values, base_name)
        ELSE IF field_name = "patient_id" THEN verify_id_field(values)
        ELSE IF field_name = "date" THEN verify_date_field(values)
        ELSE verify_text_field(field_name, values)

\* The discrepancies list of a result: field and text, in the order of the
\* fields, for the fields that do not match.
RECURSIVE FieldDiscrepancies(_, _)
FieldDiscrepancies(results, fields) ==
    IF fields = << >> THEN << >>
    ELSE (IF ~results[Head(fields)].match
          THEN << << Head(fields), results[Head(fields)].discrepancy >> >>
          ELSE << >>)
             \o FieldDiscrepancies(results, Tail(fields))

basic_match_threshold == 80

\* A summary that sets 'match' as soon as one field matches.
BasicSummary_any_field(results) ==
    LET matches == Cardinality({ f \in Range(BasicFields) : results[f].match })
        match_percentage == Rat(100 * matches, Len(BasicFields))
    IN  [match |-> matches >= 1,
         match_percentage |-> match_percentage,
         details |-> results,
         discrepancies |-> FieldDiscrepancies(results, BasicFields)]

\* The result of BasicDataVerifier.verify_case from the results of the
\* fields on.
BasicSummary(results) ==
    LET matches == Cardinality({ f \in Range(BasicFields) : results[f].match })
        match_percentage == Rat(100 * matches, Len(BasicFields))
    IN  [match |-> RatLeq(Rat(basic_match_threshold, 1), match_percentage),
         match_percentage |-> match_percentage,
         details |-> results,
         discrepancies |-> FieldDiscrepancies(results, BasicFields)]

\* The result of BasicDataVerifier.verify_case over three documents, for
\* the base names the two name fields start from.
BasicResult(doc_data, base_patient, base_doctor) ==
    BasicSummary([f \in Range(BasicFields) |->
                     verify_field(f, doc_data,
                                  IF f = "patient_name" THEN base_patient
                                  ELSE base_doctor)])

\* A verify_case that goes on to the fields whatever the number of
\* documents.
BasicDataVerifier_verify_case_unchecked(docs) ==
    LET doc_data == DocData(docs)
    IN  { BasicResult(doc_data, bp, bd) :
              bp \in BaseNames(FieldValues("patient_name", doc_data)),
              bd \in BaseNames(FieldValues("doctor", doc_data)) }

\* BasicDataVerifier.verify_case: the results it can return for the
\* documents of a case (one, unless a name field has three distinct names).
BasicDataVerifier_verify_case(docs) ==
    IF Cardinality(docs) # 3
    THEN { [match |-> FALSE, error |-> Cardinality(docs), details |-> << >>] }
    ELSE LET doc_data == DocData(docs)
         IN  { BasicResult(doc_data, bp, bd) :
                   bp \in BaseNames(FieldValues("patient_name", doc_data)),
                   bd \in BaseNames(FieldValues("doctor", doc_data)) }

(***************************************************************************)
(* SupplyVerifier                                                          *)
(***************************************************************************)

\* The orders a queryset without ordering can return its rows in.
Orders(rows) ==
    { [i \in DOMAIN rows |-> rows[p[i]]] :
          p \in { q \in [DOMAIN rows -> DOMAIN rows] :
                      \A i, j \in DOMAIN rows : q[i] = q[j] => i = j } }

\* doc.supplies of the document of a type
SuppliesOf(docs, t) == (CHOOSE doc \in docs : doc.document_type = t).supplies

\* What list(doc.supplies.all()) can give for each document of the case.
SupplyReads(docs) ==
    LET types == { doc.document_type : doc \in docs }
    IN  { read \in [types -> UNION { Orders(SuppliesOf(docs, t)) : t \in types }] :
              \A t \in types : read[t] \in Orders(SuppliesOf(docs, t)) }

NoSupplyMatch == [found |-> FALSE]

\* The first supply of the candidates with the matched name.
FirstNamed(candidate_supplies, matched_name) ==
    candidate_supplies[
        CHOOSE i \in DOMAIN candidate_supplies :
            /\ candidate_supplies[i].name = matched_name
            /\ \A j \in 1..(i - 1) : candidate_supplies[j].name # matched_name]

\* The tail of _find_supply_match: the supply of the matched name with
\* the confidence of the match, None without a match.
MatchedSupply(match, candidate_supplies) ==
    IF match.found
         /\ \E i \in DOMAIN candidate_supplies :
                candidate_supplies[i].name = match.name
    THEN [found |-> TRUE,
          supply |-> FirstNamed(candidate_supplies, match.name),
          confidence |-> match.confidence]
    ELSE NoSupplyMatch

SupplyNamesOf(candidate_supplies) ==
    [i \in DOMAIN candidate_supplies |-> candidate_supplies[i].name]

\* SupplyVerifier._find_supply_match
find_supply_match(equivalences, target_supply, candidate_supplies) ==
    IF candidate_supplies = << >> THEN NoSupplyMatch
    ELSE MatchedSupply(find_match(equivalences, target_supply.name,
                                  SupplyNamesOf(candidate_supplies)),
                       candidate_supplies)

\* The entry of hospital_matches / description_matches for a match.
MatchEntries(m) ==
    IF m.found
    THEN << [name |-> m.supply.name, quantity |-> m.supply.quantity,
             confidence |-> m.confidence] >>
    ELSE << >>

name_match_threshold == 85

\* The result of _verify_single_supply from the two matches on.
SingleSupplyResult(internal_supply, hospital_match, description_match) ==
    LET found == { m \in {hospital_match, description_match} : m.found }
        name_match ==
            \E m \in found : RatLeq(Rat(name_match_threshold, 1), m.confidence)
        quantity_match ==
            \E m \in found : m.supply.quantity = internal_supply.quantity
    IN  [internal_name |-> internal_supply.name,
         internal_quantity |-> internal_supply.quantity,
         ref_code |-> internal_supply.ref_code,
         lot_code |-> internal_supply.lot_code,
         udi_label_present |-> internal_supply.udi_label_present,
         hospital_matches |-> MatchEntries(hospital_match),
         description_matches |-> MatchEntries(description_match),
         name_match |-> name_match,
         quantity_match |-> quantity_match,
         discrepancy |->
             IF ~name_match THEN "No se encontro coincidencia de nombre"
             ELSE IF ~quantity_match THEN "Cantidades no coinciden"
             ELSE "None"]

\* A _verify_single_supply that takes the quantity of any item of a
\* document in which the name was matched.
verify_single_supply_any_quantity(equivalences, internal_supply, hospital_supplies, description_supplies) ==
    LET hospital_match == find_supply_match(equivalences, internal_supply,
                                            hospital_supplies)
        description_match == find_supply_match(equivalences, internal_supply,
                                               description_supplies)
        result == SingleSupplyResult(internal_supply, hospital_match,
                                     description_match)
    IN  [result EXCEPT !.quantity_match =
             \/ /\ hospital_match.found
                /\ \E i \in DOMAIN hospital_supplies :
                       hospital_supplies[i].quantity = internal_supply.quantity
             \/ /\ description_match.found
                /\ \E i \in DOMAIN description_supplies :
                       description_supplies[i].quantity = internal_supply.quantity]

\* SupplyVerifier._verify_single_supply
verify_single_supply(equivalences, internal_supply, hospital_supplies, description_supplies) ==
    SingleSupplyResult(
        internal_supply,
        find_supply_match(equivalences, internal_supply, hospital_supplies),
        find_supply_match(equivalences, internal_supply, description_supplies))

\* The discrepancies list of verify_supplies: name and text of the results
\* that carry a discrepancy.
RECURSIVE SupplyDiscrepancies(_)
SupplyDiscrepancies(supply_results) ==
    IF supply_results = << >> THEN << >>
    ELSE (IF Head(supply_results).discrepancy # "None"
          THEN << << Head(supply_results).internal_name,
                     Head(supply_results).discrepancy >> >>
          ELSE << >>)
             \o SupplyDiscrepancies(Tail(supply_results))

\* match_percentage of verify_supplies and completion_percentage of
\* verify_traceability: count / total * 100 if total > 0 else 0
Percentage(count, total) == IF total > 0 THEN Rat(100 * count, total) ELSE Rat(0, 1)

supplies_match_threshold == 90

\* A result of verify_supplies whose flag wants more than the threshold.
SuppliesResult_strict(supply_results) ==
    LET total_matches ==
            Cardinality({ i \in DOMAIN supply_results :
                             supply_results[i].quantity_match
                                 /\ supply_results[i].name_match })
        total_supplies == Len(supply_results)
        match_percentage == Percentage(total_matches, total_supplies)
    IN  [match |-> RatLess(Rat(supplies_match_threshold, 1), match_percentage),
         match_percentage |-> match_percentage,
         total_supplies |-> total_supplies,
         matched_supplies |-> total_matches,
         supplies_details |-> supply_results,
         discrepancies |-> SupplyDiscrepancies(supply_results)]

\* The result of verify_supplies from the results of the items on.
SuppliesResult(supply_results) ==
    LET total_matches ==
            Cardinality({ i \in DOMAIN supply_results :
                             supply_results[i].quantity_match
                                 /\ supply_results[i].name_match })
        total_supplies == Len(supply_results)
        match_percentage == Percentage(total_matches, total_supplies)
    IN  [match |-> RatLeq(Rat(supplies_match_threshold, 1), match_percentage),
         match_percentage |-> match_percentage,
         total_supplies |-> total_supplies,
         matched_supplies |-> total_matches,
         supplies_details |-> supply_results,
         discrepancies |-> SupplyDiscrepancies(supply_results)]

\* A list without the item a match took.
WithoutMatched(candidate_supplies, m) ==
    IF ~m.found THEN candidate_supplies
    ELSE LET i == CHOOSE i \in DOMAIN candidate_supplies :
                      /\ candidate_supplies[i] = m.supply
                      /\ \A j \in 1..(i - 1) : candidate_supplies[j] # m.supply
         IN  SubSeq(candidate_supplies, 1, i - 1)
                 \o SubSeq(candidate_supplies, i + 1, Len(candidate_supplies))

\* A loop in which an item of the hospital or of the description that was
\* matched is not offered to the items after.
RECURSIVE SupplyResults_consuming(_, _, _, _)
SupplyResults_consuming(equivalences, internal_supplies, hospital_supplies, description_supplies) ==
    IF internal_supplies = << >> THEN << >>
    ELSE LET hospital_match ==
                 find_supply_match(equivalences, Head(internal_supplies),
                                   hospital_supplies)
             description_match ==
                 find_supply_match(equivalences, Head(internal_supplies),
                                   description_supplies)
         IN  << SingleSupplyResult(Head(internal_supplies), hospital_match,
                                   description_match) >>
                 \o SupplyResults_consuming(
                        equivalences, Tail(internal_supplies),
                        WithoutMatched(hospital_supplies, hospital_match),
                        WithoutMatched(description_supplies, description_match))

\* The loop of verify_supplies over the items of the internal report.
SupplyResults(equivalences, internal_supplies, hospital_supplies, description_supplies) ==
    [i \in DOMAIN internal_supplies |->
        verify_single_supply(equivalences, internal_supplies[i],
                             hospital_supplies, description_supplies)]

\* SupplyVerifier.verify_supplies, supplies_by_doc being the lists read for
\* the documents of the case.
verify_supplies(equivalences, supplies_by_doc) ==
    IF \E t \in DOMAIN supplies_by_doc : supplies_by_doc[t] = << >>
    THEN [match |-> FALSE,
          error |-> "Algunos documentos no tienen insumos registrados",
          supplies_details |-> << >>]
    ELSE SuppliesResult(
             SupplyResults(equivalences,
                           Get(supplies_by_doc, INTERNAL, << >>),
                           Get(supplies_by_doc, HOSPITAL, << >>),
                           Get(supplies_by_doc, DESCRIPTION, << >>)))

(***************************************************************************)
(* TraceabilityVerifier                                                    *)
(***************************************************************************)

\* A _verify_supply_traceability for which REF or LOT is enough.
verify_supply_traceability_ref_or_lot(supply) ==
    LET ref_complete == supply.ref_code # << >>
        lot_complete == supply.lot_code # << >>
        udi_complete == supply.udi_label_present
    IN  [supply_name |-> supply.name,
         ref_code |-> supply.ref_code,
         lot_code |-> supply.lot_code,
         udi_label_present |-> supply.udi_label_present,
         ref_complete |-> ref_complete,
         lot_complete |-> lot_complete,
         udi_complete |-> udi_complete,
         complete |-> (ref_complete \/ lot_complete) /\ udi_complete,
         issues |-> (IF ~ref_complete THEN << "Falta codigo REF" >> ELSE << >>)
                        \o (IF ~lot_complete THEN << "Falta codigo LOT" >> ELSE << >>)
                        \o (IF ~udi_complete THEN << "Falta etiqueta UDI" >> ELSE << >>)]

\* TraceabilityVerifier._verify_supply_traceability
verify_supply_traceability(supply) ==
    LET ref_complete == supply.ref_code # << >>
        lot_complete == supply.lot_code # << >>
        udi_complete == supply.udi_label_present
    IN  [supply_name |-> supply.name,
         ref_code |-> supply.ref_code,
         lot_code |-> supply.lot_code,
         udi_label_present |-> supply.udi_label_present,
         ref_complete |-> ref_complete,
         lot_complete |-> lot_complete,
         udi_complete |-> udi_complete,
         complete |-> ref_complete /\ lot_complete /\ udi_complete,
         issues |-> (IF ~ref_complete THEN << "Falta codigo REF" >> ELSE << >>)
                        \o (IF ~lot_complete THEN << "Falta codigo LOT" >> ELSE << >>)
                        \o (IF ~udi_complete THEN << "Falta etiqueta UDI" >> ELSE << >>)]

RECURSIVE MissingItems(_)
MissingItems(traceability_results) ==
    IF traceability_results = << >> THEN << >>
    ELSE (IF ~Head(traceability_results).complete
          THEN << Head(traceability_results).supply_name >> ELSE << >>)
             \o MissingItems(Tail(traceability_results))

traceability_threshold == 95

\* What internal_doc.supplies.all() can give in verify_traceability; no
\* read at all when the case has no internal report.
TraceabilityReads(docs) ==
    IF \E doc \in docs : doc.document_type = INTERNAL
    THEN Orders(SuppliesOf(docs, INTERNAL))
    ELSE { << >> }

\* The result of verify_traceability from the results of the items on.
TraceabilityResult(traceability_results) ==
    LET complete_count ==
            Cardinality({ i \in DOMAIN traceability_results :
                             traceability_results[i].complete })
        total_supplies == Len(traceability_results)
        completion_percentage == Percentage(complete_count, total_supplies)
    IN  [complete |->
             RatLeq(Rat(traceability_threshold, 1), completion_percentage),
         completion_percentage |-> completion_percentage,
         total_supplies |-> total_supplies,
         complete_supplies |-> complete_count,
         details |-> traceability_results,
         missing_items |-> MissingItems(traceability_results)]

\* TraceabilityVerifier.verify_traceability, internal_supplies being the
\* list read for the internal report.
verify_traceability(docs, internal_supplies) ==
    IF ~\E doc \in docs : doc.document_type = INTERNAL
    THEN [complete |-> FALSE, error |-> "No se encontro reporte interno",
          details |-> << >>]
    ELSE TraceabilityResult(
             [i \in DOMAIN internal_supplies |->
                 verify_supply_traceability(internal_supplies[i])])

(***************************************************************************)
(* VerificationEngine._calculate_overall_score                             *)
(***************************************************************************)

RatAdd(p, q) == Rat(p.num * q.den + q.num * p.den, p.den * q.den)
RatScale(k, p) == Rat(k * p.num, p.den)

\* The integer nearest to n/d, a tie going to the even one (round()).
RoundHalfEven(n, d) ==
    LET q == n \div d
        r == n % d
    IN  IF 2 * r < d THEN q
        ELSE IF 2 * r > d THEN q + 1
        ELSE IF q % 2 = 0 THEN q ELSE q + 1

\* round(x, 2) of the rational x, in hundredths.
Round2(x) == RoundHalfEven(100 * x.num, x.den)

\* The weights of the three components, in tenths.
weight_basic_data == 3
weight_supplies == 5
weight_traceability == 2

\* A score that adds the three percentages without their weights.
calculate_overall_score_unweighted(basic_results, supply_results, traceability_results) ==
    LET basic_score == Get(basic_results, "match_percentage", Rat(0, 1))
        supply_score == Get(supply_results, "match_percentage", Rat(0, 1))
        traceability_score ==
            Get(traceability_results, "completion_percentage", Rat(0, 1))
    IN  Round2(RatAdd(basic_score, RatAdd(supply_score, traceability_score)))

\* The three components weighted alike, as a plain mean would.
calculate_overall_score_mean(basic_results, supply_results, traceability_results) ==
    LET basic_score == Get(basic_results, "match_percentage", Rat(0, 1))
        supply_score == Get(supply_results, "match_percentage", Rat(0, 1))
        traceability_score ==
            Get(traceability_results, "completion_percentage", Rat(0, 1))
        sum == RatAdd(basic_score, RatAdd(supply_score, traceability_score))
    IN  Round2(Rat(sum.num, 3 * sum.den))

\* VerificationEngine._calculate_overall_score: the score in hundredths.
calculate_overall_score(basic_results, supply_results, traceability_results) ==
    LET basic_score == Get(basic_results, "match_percentage", Rat(0, 1))
        supply_score == Get(supply_results, "match_percentage", Rat(0, 1))
        traceability_score ==
            Get(traceability_results, "completion_percentage", Rat(0, 1))
        weighted ==
            RatAdd(RatScale(weight_basic_data, basic_score),
                   RatAdd(RatScale(weight_supplies, supply_score),
                          RatScale(weight_traceability, traceability_score)))
    IN  Round2(Rat(weighted.num, 10 * weighted.den))

(***************************************************************************)
(* VerificationEngine.verify_case                                          *)
(***************************************************************************)

\* VerificationEngine._compile_discrepancies
compile_discrepancies(basic_results, supply_results, traceability_results) ==
    LET missing_items == Get(traceability_results, "missing_items", << >>)
    IN  Get(basic_results, "discrepancies", << >>)
            \o Get(supply_results, "discrepancies", << >>)
            \o [i \in DOMAIN missing_items |->
                    << "Trazabilidad incompleta", missing_items[i] >>]

review_threshold == 85

\* A requires_review that looks at the score alone.
requires_review_score_only(basic_results, supply_results, traceability_results, score) ==
    score < 100 * review_threshold

\* requires_review of verify_case, the score being in hundredths.
requires_review(basic_results, supply_results, traceability_results, score) ==
    \/ ~basic_results.match
    \/ ~supply_results.match
    \/ ~traceability_results.complete
    \/ score < 100 * review_threshold

\* The defaults verify_case hands to update_or_create (processing_time, a
\* reading of the clock, left out).
ReportDefaults(basic_results, supply_results, traceability_results) ==
    LET score == calculate_overall_score(basic_results, supply_results,
                                         traceability_results)
    IN  [basic_data_match |-> basic_results.match,
         supplies_match |-> supply_results.match,
         traceability_complete |-> traceability_results.complete,
         requires_review |->
             requires_review(basic_results, supply_results,
                             traceability_results, score),
         basic_data_details |-> basic_results,
         supplies_details |-> supply_results,
         traceability_details |-> traceability_results,
         discrepancies |->
             compile_discrepancies(basic_results, supply_results,
                                   traceability_results),
         verification_score |-> score]

\* A JSONField is written with json.dumps and the default encoder, which
\* raises TypeError on a datetime.date; of what verify_case stores, only
\* the 'values' of the date field in basic_data_details can hold one.
JsonSerializable(defaults) ==
    LET details == defaults.basic_data_details.details
    IN  \/ "date" \notin DOMAIN details
        \/ \A t \in DOMAIN details["date"].values :
               details["date"].values[t] = NoDate

\* The row of VerificationResult for a case and field values.
ReportRow(case, defaults) ==
    [surgical_case |-> case,
     basic_data_match |-> defaults.basic_data_match,
     supplies_match |-> defaults.supplies_match,
     traceability_complete |-> defaults.traceability_complete,
     requires_review |-> defaults.requires_review,
     basic_data_details |-> defaults.basic_data_details,
     supplies_details |-> defaults.supplies_details,
     traceability_details |-> defaults.traceability_details,
     discrepancies |-> defaults.discrepancies,
     verification_score |-> defaults.verification_score]

\* An update_or_create that leaves the row of the case alone in the table.
update_or_create_only_row(rows, case, defaults) == { ReportRow(case, defaults) }

\* A create in place of update_or_create.
update_or_create_always_create(rows, case, defaults) ==
    rows \cup { ReportRow(case, defaults) }

\* VerificationResult.objects.update_or_create(surgical_case=case,
\* defaults=...), one transaction: the row of the case gets the values, or
\* a row with them is created.
update_or_create(rows, case, defaults) ==
    { r \in rows : r.surgical_case # case } \cup { ReportRow(case, defaults) }

\* A call that stored nothing.
NoComputed == [stored |-> FALSE]

\* What a returning call computed and stored: the flags, the score and
\* the discrepancies of its defaults.
Computed(defaults) ==
    [stored |-> TRUE,
     basic_data_match |-> defaults.basic_data_match,
     supplies_match |-> defaults.supplies_match,
     traceability_complete |-> defaults.traceability_complete,
     requires_review |-> defaults.requires_review,
     discrepancies |-> defaults.discrepancies,
     verification_score |-> defaults.verification_score]

\* The end of verify_case for the defaults it computed: the upsert, or the
\* TypeError of the upsert turned into VerificationError.
StoreReport(rows, case, defaults) ==
    IF JsonSerializable(defaults)
    THEN [reports |-> update_or_create(rows, case, defaults),
          raised |-> "none", outcome |-> "returned",
          computed |-> Computed(defaults)]
    ELSE [reports |-> rows, raised |-> "TypeError",
          outcome |-> "VerificationError", computed |-> NoComputed]

\* The same with the row written before the values are serialized.
StoreReport_write_first(rows, case, defaults) ==
    IF JsonSerializable(defaults)
    THEN [reports |-> update_or_create(rows, case, defaults),
          raised |-> "none", outcome |-> "returned",
          computed |-> Computed(defaults)]
    ELSE [reports |-> update_or_create(rows, case, defaults),
          raised |-> "TypeError",
          outcome |-> "VerificationError", computed |-> NoComputed]

\* A verify_case that writes the row before the values are serialized.
verify_case_write_first(rows, case, basic_results, supply_results, traceability_results) ==
    StoreReport_write_first(rows, case,
                            ReportDefaults(basic_results, supply_results,
                                           traceability_results))

\* VerificationEngine.verify_case from the three sub-results on: the rows
\* of VerificationResult it leaves, what was raised inside the try, and how
\* the call ends.
verify_case(rows, case, basic_results, supply_results, traceability_results) ==
    StoreReport(rows, case,
                ReportDefaults(basic_results, supply_results,
                               traceability_results))

\* The three flags of a report.
AllFlags(report) ==
    report.basic_data_match /\ report.supplies_match /\ report.traceability_complete

APROBADO == "APROBADO"
REQUIERE_REVISION == "REQUIERE_REVISION"
RECHAZADO == "RECHAZADO"

\* An overall_status that approves a report with one of the flags.
overall_status_any_flag(report) ==
    IF report.basic_data_match \/ report.supplies_match \/ report.traceability_complete
    THEN APROBADO
    ELSE IF report.requires_review THEN REQUIERE_REVISION
    ELSE RECHAZADO

\* VerificationResult.overall_status
overall_status(report) ==
    IF AllFlags(report) THEN APROBADO
    ELSE IF report.requires_review THEN REQUIERE_REVISION
    ELSE RECHAZADO

(***************************************************************************)
(* EquivalenceManager and SupplyEquivalence                                *)
(***************************************************************************)

\* A row of SupplyEquivalence; confidence_score is kept in hundredths.
NoUser == "None"
EquivalenceRow(c, a, score, user, auto) ==
    [canonical_name |-> c, aliases |-> a, confidence_score |-> score,
     validated_by |-> user, is_auto_generated |-> auto]

\* re.sub(r'[^\w\s\d\.,x\-]', '', s)
RECURSIVE RemoveSymbols(_)
RemoveSymbols(s) ==
    IF s = << >> THEN << >>
    ELSE IF \/ IsWord(Head(s)) \/ IsSpace(Head(s)) \/ IsDigit(Head(s))
            \/ Head(s) \in {".", ",", "x", "-"}
         THEN << Head(s) >> \o RemoveSymbols(Tail(s))
         ELSE RemoveSymbols(Tail(s))

\* The length of the longest prefix of s matching \d+(?:\.\d+)?
RunNumber(s) ==
    LET d == RunDigits(s)
        r == Drop(s, d)
        f == IF r # << >> /\ Head(r) = "." THEN RunDigits(Tail(r)) ELSE 0
    IN  IF d > 0 /\ f > 0 THEN d + 1 + f ELSE d

\* re.sub(r'(\d+(?:\.\d+)?)\s*x\s*(\d+(?:\.\d+)?)', r'\1x\2', s)
RECURSIVE SubDecimalDimension(_)
SubDecimalDimension(s) ==
    IF s = << >> THEN << >>
    ELSE LET d1 == RunNumber(s)
             r1 == Drop(s, d1)
             r2 == Drop(r1, RunSpaces(r1))
             r3 == Drop(r2, 1)
             r4 == Drop(r3, RunSpaces(r3))
             d2 == RunNumber(r4)
         IN  IF d1 > 0 /\ r2 # << >> /\ Head(r2) = "x" /\ d2 > 0
             THEN Take(s, d1) \o << "x" >> \o Take(r4, d2)
                      \o SubDecimalDimension(Drop(r4, d2))
             ELSE << Head(s) >> \o SubDecimalDimension(Tail(s))

\* EquivalenceManager._normalize_name
EquivalenceManager_normalize_name(name) ==
    LET lowered  == Strip(Lower(StripAccents(name)))
        crossed  == Replace(lowered, << "×" >>, << "x" >>)
        cleaned  == CollapseSpaces(RemoveSymbols(crossed))
        measured == SubDecimalDimension(cleaned)
    IN  Replace(measured,
                << "s", "t", "a", "n", "d", "a", "r", "d" >>,
                << "e", "s", "t", "a", "n", "d", "a", "r" >>)

NormalizeAliases(aliases) ==
    [i \in 1..Len(aliases) |-> EquivalenceManager_normalize_name(aliases[i])]

\* An add_alias that appends whatever the list holds.
add_alias_append(equivalence, alias) ==
    [equivalence EXCEPT !.aliases = Append(@, alias)]

\* SupplyEquivalence.add_alias
add_alias(equivalence, alias) ==
    IF InSeq(Lower(alias), LowerAll(equivalence.aliases))
    THEN equivalence
    ELSE [equivalence EXCEPT !.aliases = Append(@, alias)]

\* for alias in aliases_clean: equivalence.add_alias(alias)
RECURSIVE AddAliases(_, _)
AddAliases(equivalence, aliases_clean) ==
    IF aliases_clean = << >> THEN equivalence
    ELSE AddAliases(add_alias(equivalence, Head(aliases_clean)),
                    Tail(aliases_clean))

\* An update that records the submitter whoever validated the entry before.
UpdateEquivalence_always_validate(equivalence, aliases_clean, user) ==
    LET merged == AddAliases(equivalence, aliases_clean)
    IN  IF user # NoUser
        THEN [merged EXCEPT !.validated_by = user, !.confidence_score = 100]
        ELSE merged

\* The branch of add_equivalence on an entry that exists.
UpdateEquivalence(equivalence, aliases_clean, user) ==
    LET merged == AddAliases(equivalence, aliases_clean)
    IN  IF user # NoUser /\ merged.validated_by = NoUser
        THEN [merged EXCEPT !.validated_by = user, !.confidence_score = 100]
        ELSE merged

\* The entry get_or_create makes when there is none.
CreateEquivalence(canonical_clean, aliases_clean, user, is_auto) ==
    EquivalenceRow(canonical_clean, aliases_clean,
                   IF is_auto THEN 80 ELSE 100, user, is_auto)

\* The index of the row with a canonical name, 0 when there is none.
RowOf(rows, canonical_clean) ==
    IF \E i \in 1..Len(rows) : rows[i].canonical_name = canonical_clean
    THEN CHOOSE i \in 1..Len(rows) : rows[i].canonical_name = canonical_clean
    ELSE 0

AddEquivalenceClean(rows, canonical_clean, aliases_clean, user, is_auto) ==
    IF RowOf(rows, canonical_clean) = 0
    THEN Append(rows, CreateEquivalence(canonical_clean, aliases_clean,
                                        user, is_auto))
    ELSE [rows EXCEPT ![RowOf(rows, canonical_clean)] =
              UpdateEquivalence(@, aliases_clean, user)]

\* EquivalenceManager.add_equivalence: the rows of SupplyEquivalence after
\* the call.
add_equivalence(rows, canonical_name, aliases, user, is_auto) ==
    AddEquivalenceClean(rows, EquivalenceManager_normalize_name(canonical_name),
                        NormalizeAliases(aliases), user, is_auto)

\* similar.sort(key=lambda x: x['similarity'], reverse=True): the sort is
\* stable, entries of equal similarity keep their order.
RECURSIVE InsertBySimilarity(_, _)
InsertBySimilarity(item, sorted) ==
    IF sorted = << >> THEN << item >>
    ELSE IF RatLess(Head(sorted).similarity, item.similarity)
         THEN << item >> \o sorted
         ELSE << Head(sorted) >> \o InsertBySimilarity(item, Tail(sorted))

RECURSIVE SortBySimilarity(_)
SortBySimilarity(similar) ==
    IF similar = << >> THEN << >>
    ELSE InsertBySimilarity(similar[Len(similar)],
                            SortBySimilarity(SubSeq(similar, 1, Len(similar) - 1)))

suggestion_threshold == 80

\* The loop of _find_similar_names over all_names.
RECURSIVE SimilarTo(_, _, _)
SimilarTo(target_name, target_normalized, all_names) ==
    IF all_names = << >> THEN << >>
    ELSE LET name == Head(all_names)
             similarity == token_sort_ratio(target_normalized,
                                            EquivalenceManager_normalize_name(name))
             rest == SimilarTo(target_name, target_normalized, Tail(all_names))
         IN  IF name = target_name THEN rest
             ELSE IF RatLeq(Rat(suggestion_threshold, 1), similarity)
                  THEN << [name |-> name, similarity |-> similarity] >> \o rest
                  ELSE rest

\* The loop of a _find_similar_names that compares the target with itself.
RECURSIVE SimilarTo_with_self(_, _, _)
SimilarTo_with_self(target_name, target_normalized, all_names) ==
    IF all_names = << >> THEN << >>
    ELSE LET name == Head(all_names)
             similarity == token_sort_ratio(target_normalized,
                                            EquivalenceManager_normalize_name(name))
             rest == SimilarTo_with_self(target_name, target_normalized,
                                         Tail(all_names))
         IN  IF RatLeq(Rat(suggestion_threshold, 1), similarity)
             THEN << [name |-> name, similarity |-> similarity] >> \o rest
             ELSE rest

find_similar_names_with_self(target_name, all_names) ==
    LET similar == SortBySimilarity(
                       SimilarTo_with_self(target_name,
                           EquivalenceManager_normalize_name(target_name),
                           all_names))
    IN  << target_name >> \o [i \in 1..Len(similar) |-> similar[i].name]

\* EquivalenceManager._find_similar_names
find_similar_names(target_name, all_names) ==
    LET similar == SortBySimilarity(
                       SimilarTo(target_name,
                                 EquivalenceManager_normalize_name(target_name),
                                 all_names))
    IN  << target_name >> \o [i \in 1..Len(similar) |-> similar[i].name]

\* The sum of the similarities of similar_names[i] and the names after it.
RECURSIVE PairSimilarities(_, _, _)
PairSimilarities(similar_names, i, j) ==
    IF i >= Len(similar_names) THEN Rat(0, 1)
    ELSE IF j > Len(similar_names) THEN PairSimilarities(similar_names, i + 1, i + 2)
    ELSE RatAdd(token_sort_ratio(
                    EquivalenceManager_normalize_name(similar_names[i]),
                    EquivalenceManager_normalize_name(similar_names[j])),
                PairSimilarities(similar_names, i, j + 1))

\* EquivalenceManager._calculate_similarity_confidence, as an exact
\* fraction: the mean of the similarities of the pairs, over 100.
calculate_similarity_confidence(similar_names) ==
    LET n == Len(similar_names)
        comparisons == (n * (n - 1)) \div 2
        total == PairSimilarities(similar_names, 1, 2)
    IN  IF n < 2 THEN Rat(0, 1)
        ELSE Rat(total.num, total.den * comparisons * 100)

\* The loop of suggest_equivalences over the names from the i-th on.
RECURSIVE SuggestFrom(_, _)
SuggestFrom(supply_names, i) ==
    IF i > Len(supply_names) THEN << >>
    ELSE LET similar_names == find_similar_names(supply_names[i], supply_names)
         IN  IF Len(similar_names) > 1
             THEN << [canonical_candidate |-> supply_names[i],
                      similar_names |-> similar_names,
                      confidence |->
                          calculate_similarity_confidence(similar_names)] >>
                      \o SuggestFrom(supply_names, i + 1)
             ELSE SuggestFrom(supply_names, i + 1)

\* EquivalenceManager.suggest_equivalences
suggest_equivalences(supply_names) == SuggestFrom(supply_names, 1)

\* A save() that adds the aliases of the instance to those of the row.
SaveRow_merge(rows, equivalence) ==
    [rows EXCEPT ![RowOf(rows, equivalence.canonical_name)] =
         [equivalence EXCEPT !.aliases =
              AddAliases(rows[RowOf(rows, equivalence.canonical_name)],
                         equivalence.aliases).aliases]]

\* Model.save() of an instance of SupplyEquivalence: every column of its
\* row is written from the instance.
SaveRow(rows, equivalence) ==
    [rows EXCEPT ![RowOf(rows, equivalence.canonical_name)] = equivalence]

(***************************************************************************)
(* DocumentProcessor                                                       *)
(***************************************************************************)

\* DocumentStatus
UPLOADED == "uploaded"
PROCESSING == "processing"
PROCESSED == "processed"
ERROR == "error"

\* The tables a call writes: the rows of SurgicalCase, of Document (each
\* with its Supply rows) and of VerificationResult.
Tables(c, d, r) == [cases |-> c, documents |-> d, reports |-> r]

\* if len(files_data) != 3 and if doc_types != required_types
required_types == { INTERNAL, HOSPITAL, DESCRIPTION }
doc_types(files_data) == { files_data[i].document_type : i \in DOMAIN files_data }
ValidFiles(files_data) ==
    Len(files_data) = 3 /\ doc_types(files_data) = required_types

\* 'Por definir', and timezone.now().date()
por_definir == << "P", "o", "r", " ", "d", "e", "f", "i", "n", "i", "r" >>
today == "today"

\* DocumentProcessor._create_surgical_case: the row of the case, from the
\* case_data of the first file.
create_surgical_case(files_data, case_number) ==
    LET base_data == files_data[1].case_data
    IN  [case_number |-> case_number,
         patient_name |-> Get(base_data, "patient_name", por_definir),
         patient_id |-> Get(base_data, "patient_id", << >>),
         surgery_date |-> Get(base_data, "surgery_date", today),
         city |-> Get(base_data, "city", << >>),
         doctor_name |-> Get(base_data, "doctor_name", << >>),
         procedure |-> Get(base_data, "procedure", << >>)]

\* A _choose that lets any document overwrite the field.
choose_last_wins(old_val, new_val, is_internal) ==
    IF new_val = << >> THEN old_val ELSE new_val

\* _choose of _update_case_data: the value the field gets.
choose(old_val, new_val, is_internal) ==
    IF new_val = << >> THEN old_val
    ELSE IF is_internal THEN new_val
    ELSE IF old_val = << >> THEN new_val
    ELSE old_val

\* DocumentProcessor._update_case_data: the case after a document's
\* extracted data; extracted dates are in the first format of the three.
update_case_data(case, document_type, extracted_data) ==
    LET is_internal == document_type = INTERNAL
        new_date == extracted_data.extracted_date
    IN  [case EXCEPT
            !.patient_name = choose(@, extracted_data.extracted_patient_name, is_internal),
            !.patient_id = choose(@, extracted_data.extracted_patient_id, is_internal),
            !.surgery_date = IF new_date # NoDate /\ (is_internal \/ @ = NoDate)
                             THEN new_date ELSE @,
            !.city = choose(@, extracted_data.extracted_city, is_internal),
            !.doctor_name = choose(@, extracted_data.extracted_doctor, is_internal),
            !.procedure = choose(@, extracted_data.extracted_procedure, is_internal)]

\* The row of Document with its status.
StoredDocument(row, status) ==
    [f \in DOMAIN row \cup { "status" } |-> IF f = "status" THEN status ELSE row[f]]

\* The rows of Document as the verifiers read them.
Extracted(docs) ==
    { [f \in DOMAIN doc \ { "status" } |-> doc[f]] : doc \in docs }

\* The same tables with the row of a case replaced.
WithCase(tables, case) ==
    [tables EXCEPT !.cases =
         { c \in @ : c.case_number # case.case_number } \cup { case }]

\* DocumentProcessor._process_document inside the transaction: what the
\* tables hold after it and whether it raised.  The parser raises before
\* any row is created; a failure of the database in the save of the
\* extracted fields leaves the row as it was created, PROCESSING (the save
\* of the handler fails too); a failure while the line items are created
\* leaves the document with the status ERROR.
process_document(tables, case, file_data) ==
    LET doc_type == file_data.document_type
        content == file_data.content
        blank == [surgical_case |-> case.case_number, document_type |-> doc_type,
                  extracted_patient_name |-> << >>, extracted_patient_id |-> << >>,
                  extracted_date |-> NoDate, extracted_city |-> << >>,
                  extracted_doctor |-> << >>, extracted_procedure |-> << >>,
                  supplies |-> << >>]
        filled == [blank EXCEPT
                      !.extracted_patient_name = content.fields.extracted_patient_name,
                      !.extracted_patient_id = content.fields.extracted_patient_id,
                      !.extracted_date = content.fields.extracted_date,
                      !.extracted_city = content.fields.extracted_city,
                      !.extracted_doctor = content.fields.extracted_doctor,
                      !.extracted_procedure = content.fields.extracted_procedure]
    IN  IF content.fails = "parse"
        THEN [tables |-> tables, raised |-> TRUE]
        ELSE IF content.fails = "update"
        THEN [tables |-> [tables EXCEPT !.documents =
                              @ \cup { StoredDocument(blank, PROCESSING) }],
              raised |-> TRUE]
        ELSE IF content.fails = "save"
        THEN [tables |-> [tables EXCEPT !.documents =
                              @ \cup { StoredDocument(filled, ERROR) }],
              raised |-> TRUE]
        ELSE [tables |->
                  WithCase([tables EXCEPT !.documents =
                                @ \cup { StoredDocument(
                                             [filled EXCEPT !.supplies = content.supplies],
                                             PROCESSED) }],
                           update_case_data(case, doc_type, content.fields)),
              raised |-> FALSE]

\* The end of a block that commits whatever happened in it.
EndTransaction_autocommit(before, after, raised) == after

\* The end of the block of transaction.atomic(): the tables are those the
\* block left, or those before it when an exception leaves the block.
EndTransaction(before, after, raised) == IF raised THEN before ELSE after

(***************************************************************************)
(* State                                                                   *)
(***************************************************************************)

VARIABLES
    equivalence_store,  \* the rows of SupplyEquivalence, in table order
    matcher,            \* a SupplyMatcher instance: its equivalences
    last_match,         \* the find_match call on it and its result
    score_call,         \* a call of _calculate_overall_score and its result
    documents,          \* the rows of Document, each with its Supply rows
    reports,            \* the rows of VerificationResult
    last_call,          \* the last verify_case call and how it ended
    last_add,           \* the last add_equivalence call
    verifier_call,      \* a call of one of the three verifiers and its result
    name_call,          \* a call of the name functions of the services
    writers,            \* the add_equivalence calls in progress, by caller
    verifying,          \* the verify_case calls in progress, by case
    processor,          \* the process_surgical_case call and its transaction
    cases               \* the rows of SurgicalCase

matcher_vars == << equivalence_store, matcher, last_match, last_add >>
engine_vars == << documents, reports, last_call, verifier_call >>
service_vars == << name_call, writers, verifying, processor, cases >>
vars == << equivalence_store, matcher, last_match, score_call,
           documents, reports, last_call, last_add, verifier_call,
           service_vars >>

(***************************************************************************)
(* Inputs of the supply matcher                                            *)
(***************************************************************************)

MaxCandidates == 2

s_abcd    == << "a", "b", "c", "d" >>
s_Abcd    == << "A", "b", "c", "d" >>
s_abc     == << "a", "b", "c" >>
s_a_bcd   == << "a", " ", "b", "c", "d" >>
s_bcd_a   == << "b", "c", "d", " ", "a" >>
s_mn      == << "m", "n" >>
s_mn_bang == << "m", "n", "!" >>
s_MN      == << "M", "N" >>
s_bang    == << "!" >>

SupplyNames ==
    { s_abcd, s_Abcd, s_abc, s_a_bcd, s_bcd_a, s_mn, s_mn_bang, s_bang }

RECURSIVE SeqsUpTo(_, _)
SeqsUpTo(S, n) ==
    IF n = 0 THEN { << >> }
    ELSE LET shorter == SeqsUpTo(S, n - 1)
         IN  shorter \cup { Append(q, x) : q \in shorter, x \in S }

CandidateLists == SeqsUpTo(SupplyNames, MaxCandidates)

Equivalence(c, a) == [canonical_name |-> c, aliases |-> a]

\* Tables of the store: none, an entry whose aliases leave out its
\* canonical name, an entry whose aliases hold it, and both.
StoreInputs ==
    { << >>,
      << Equivalence(s_abcd, << s_MN >>) >>,
      << Equivalence(s_mn, << s_mn, s_abc >>) >>,
      << Equivalence(s_abcd, << s_MN >>), Equivalence(s_mn, << s_mn, s_abc >>) >> }

NoMatcher == [constructed |-> FALSE, equivalences |-> << >>]

(***************************************************************************)
(* The supply matcher as a state machine: a table, a matcher constructed   *)
(* over it, one find_match call on the matcher.                            *)
(***************************************************************************)

NoScoreCall == [called |-> FALSE, basic_results |-> [error |-> "none"],
                supply_results |-> [error |-> "none"],
                traceability_results |-> [error |-> "none"], result |-> 0]
NoMatchCall == [called |-> FALSE, supply_name |-> << >>,
                candidate_names |-> << >>, result |-> None]

NoAddCall == [called |-> FALSE, canonical_name |-> << >>, aliases |-> << >>,
              user |-> "None", is_auto |-> FALSE, entry |-> 0,
              created |-> FALSE, repeated |-> FALSE]

MatcherIdle ==
    /\ equivalence_store = << >>
    /\ matcher = NoMatcher
    /\ last_match = NoMatchCall
    /\ last_add = NoAddCall

ScoreIdle == score_call = NoScoreCall

NoCall == [surgical_case |-> "none", raised |-> "none", outcome |-> "none",
           computed |-> NoComputed]

NoVerifierCall == [verifier |-> "none", called |-> FALSE]

NoNameCall == [op |-> "none", called |-> FALSE]

\* The callers of add_equivalence and a caller that has not called.
Writers == { "w1", "w2" }
IdleWriter == [pc |-> "idle", steps |-> 0]
NoWriters == [w \in Writers |-> IdleWriter]

\* No verify_case call in progress, no process_surgical_case call.
Cases == { "case1", "case2" }
NoVerifying == [case \in Cases |-> [pc |-> "idle"]]
NoProcessor == [pc |-> "idle"]

NamesIdle == name_call = NoNameCall
WritersIdle == writers = NoWriters
VerifyingIdle == verifying = NoVerifying
ProcessorIdle == processor = NoProcessor /\ cases = {}

ServiceIdle == NamesIdle /\ WritersIdle /\ VerifyingIdle /\ ProcessorIdle

EngineIdle ==
    /\ documents = {}
    /\ reports = {}
    /\ last_call = NoCall
    /\ verifier_call = NoVerifierCall

InitMatcher ==
    /\ ScoreIdle
    /\ ServiceIdle
    /\ EngineIdle
    /\ equivalence_store \in StoreInputs
    /\ matcher = NoMatcher
    /\ last_add = NoAddCall
    /\ \E n \in SupplyNames, cs \in CandidateLists :
           last_match = [called |-> FALSE, supply_name |-> n,
                         candidate_names |-> cs, result |-> None]

\* SupplyMatcher.__init__
NewSupplyMatcher ==
    /\ ~matcher.constructed
    /\ matcher' = [constructed |-> TRUE,
                   equivalences |-> load_equivalences(equivalence_store)]
    /\ UNCHANGED << equivalence_store, last_match, last_add, score_call, service_vars, engine_vars >>

\* The call of find_match on the matcher.
FindMatch ==
    /\ matcher.constructed
    /\ ~last_match.called
    /\ last_match' = [last_match EXCEPT
                        !.called = TRUE,
                        !.result = find_match(matcher.equivalences,
                                              last_match.supply_name,
                                              last_match.candidate_names)]
    /\ UNCHANGED << equivalence_store, matcher, last_add, score_call, service_vars, engine_vars >>

NextMatcher == NewSupplyMatcher \/ FindMatch

SpecMatcher == InitMatcher /\ [][NextMatcher]_vars

(***************************************************************************)
(* _calculate_overall_score as a state machine: the three sub-results are  *)
(* drawn, the score is computed.                                           *)
(***************************************************************************)

MaxItems == 3

\* The percentages a verifier can report over up to MaxItems items or over
\* the six fields, and those of the engine's test.
PercentageInputs ==
    { Rat(100 * k, n) : k \in 0..MaxItems, n \in 1..MaxItems }
        \cup { Rat(100 * m, 6) : m \in 0..6 }
        \cup { Rat(80, 1), Rat(90, 1), Rat(95, 1) }

Percentages == { p \in PercentageInputs : RatLeq(p, Rat(100, 1)) }

\* A sub-result with a percentage, and an error result, which has none.
MatchInputs ==
    { [match_percentage |-> p] : p \in Percentages } \cup { [error |-> "error"] }
CompletionInputs ==
    { [completion_percentage |-> p] : p \in Percentages }
        \cup { [error |-> "error"] }

InitScore ==
    /\ MatcherIdle
    /\ ServiceIdle
    /\ EngineIdle
    /\ \E b \in MatchInputs, su \in MatchInputs, t \in CompletionInputs :
           score_call = [called |-> FALSE, basic_results |-> b,
                         supply_results |-> su, traceability_results |-> t,
                         result |-> 0]

CalculateOverallScore ==
    /\ ~score_call.called
    /\ score_call' = [score_call EXCEPT
                        !.called = TRUE,
                        !.result = calculate_overall_score(
                                       score_call.basic_results,
                                       score_call.supply_results,
                                       score_call.traceability_results)]
    /\ UNCHANGED << matcher_vars, engine_vars, service_vars >>

NextScore == CalculateOverallScore

SpecScore == InitScore /\ [][NextScore]_vars

(***************************************************************************)
(* The engine as a state machine: documents are stored for the cases, and  *)
(* a VerificationEngine, constructed over the equivalence table, verifies  *)
(* them.                                                                   *)
(***************************************************************************)

MaxDocuments == 3

d_1 == "2024-01-01"

n_Ana    == << "A", "n", "a" >>
n_ana    == << "a", "n", "a" >>
n_Ted    == << "T", "e", "d" >>
n_DrSam  == << "D", "R", ".", " ", "S", "a", "m" >>
n_Sam    == << "S", "a", "m" >>
n_Samm   == << "S", "a", "m", "m" >>
n_Sammm  == << "S", "a", "m", "m", "m" >>
id_12    == << "1", "2" >>
id_1_2   == << "1", "-", "2" >>
id_21    == << "2", "1" >>
t_bc     == << "b", "c" >>
t_BC     == << "B", "C" >>
t_ab     == << "a", "b" >>
c_ref    == << "R", "1" >>
c_lot    == << "A", "2" >>

Fields(name, id, date, city, doctor, procedure) ==
    [extracted_patient_name |-> name, extracted_patient_id |-> id,
     extracted_date |-> date, extracted_city |-> city,
     extracted_doctor |-> doctor, extracted_procedure |-> procedure]

NoFields == Fields(<< >>, << >>, NoDate, << >>, << >>, << >>)

\* A Supply row: a line item of the internal report with its traceability
\* codes, and one of the other two documents, which has none.
Item(name, quantity, ref, lot, udi) ==
    [name |-> name, quantity |-> quantity, ref_code |-> ref, lot_code |-> lot,
     udi_label_present |-> udi]
Line(name, quantity) == Item(name, quantity, << >>, << >>, FALSE)

\* What a document of each type is stored with, its extracted fields and
\* its line items: one that agrees with the other types' first, one that
\* differs from them, and one with nothing extracted.  The second internal
\* report is the one with a date.
DocumentInputs(t) ==
    IF t = INTERNAL
    THEN { [fields |-> Fields(n_Ana, id_12, NoDate, t_bc, n_DrSam, s_abcd),
            supplies |-> << Item(s_abcd, 1, c_ref, c_lot, TRUE) >>],
           [fields |-> Fields(n_Ana, id_12, d_1, t_bc, n_Sam, s_abcd),
            supplies |-> << Item(s_abcd, 1, c_ref, c_lot, TRUE),
                            Item(s_abc, 2, c_ref, << >>, TRUE) >>],
           [fields |-> NoFields, supplies |-> << >>] }
    ELSE IF t = HOSPITAL
    THEN { [fields |-> Fields(n_ana, id_1_2, NoDate, t_BC, n_Samm, t_bc),
            supplies |-> << Line(s_Abcd, 1) >>],
           [fields |-> Fields(n_Ted, id_21, NoDate, t_BC, n_Sam, t_bc),
            supplies |-> << Line(s_abc, 1), Line(s_mn, 1) >>],
           [fields |-> NoFields, supplies |-> << >>] }
    ELSE { [fields |-> Fields(n_Ana, id_12, NoDate, t_bc, n_Sammm, s_abcd),
            supplies |-> << Line(s_a_bcd, 1) >>],
           [fields |-> Fields(n_Ana, id_12, NoDate, t_ab, n_Ted, s_mn),
            supplies |-> << Line(s_mn_bang, 2), Line(s_Abcd, 1) >>],
           [fields |-> NoFields, supplies |-> << Line(s_bcd_a, 1) >>] }

\* The table the engine is constructed over.
EngineStoreInputs == { << Equivalence(s_mn, << s_mn, s_abc >>) >> }

\* The row of Document for a case, a type and what it is stored with.
DocumentRow(case, t, input) ==
    [surgical_case |-> case, document_type |-> t,
     extracted_patient_name |-> input.fields.extracted_patient_name,
     extracted_patient_id |-> input.fields.extracted_patient_id,
     extracted_date |-> input.fields.extracted_date,
     extracted_city |-> input.fields.extracted_city,
     extracted_doctor |-> input.fields.extracted_doctor,
     extracted_procedure |-> input.fields.extracted_procedure,
     supplies |-> input.supplies]

\* The state after VerificationEngine(): its SupplyVerifier's matcher holds
\* the equivalences loaded from the table.
Init ==
    /\ ScoreIdle
    /\ ServiceIdle
    /\ equivalence_store \in EngineStoreInputs
    /\ matcher = [constructed |-> TRUE,
                  equivalences |-> load_equivalences(equivalence_store)]
    /\ last_match = NoMatchCall
    /\ last_add = NoAddCall
    /\ EngineIdle

\* A document of a type is stored for a case with its line items; the
\* case has one document of a type at most (unique_together).
CreateDocument(case, t) ==
    /\ Cardinality(documents) < MaxDocuments
    /\ ~\E doc \in documents : doc.surgical_case = case /\ doc.document_type = t
    /\ \E input \in DocumentInputs(t) :
           documents' = documents \cup { DocumentRow(case, t, input) }
    /\ UNCHANGED << matcher_vars, score_call, service_vars, reports, last_call, verifier_call >>

\* What the three verifiers of verify_case can return for the documents of
\* a case: one triple per result of the basic verifier and per order in
\* which the supplies are read.
VerifierResults(equivalences, docs) ==
    UNION { UNION { { << basic_results,
                         verify_supplies(equivalences, supplies_by_doc),
                         verify_traceability(docs, internal_supplies) >> :
                      internal_supplies \in TraceabilityReads(docs) } :
                    supplies_by_doc \in SupplyReads(docs) } :
            basic_results \in BasicDataVerifier_verify_case(docs) }

\* The sets of documents a case can hold: one of each type at most.
CaseDocuments(case) ==
    LET rows == UNION { { DocumentRow(case, t, input) : input \in DocumentInputs(t) } :
                        t \in Range(DocumentTypes) }
    IN  { docs \in SUBSET rows :
              \A d1, d2 \in docs : d1.document_type = d2.document_type => d1 = d2 }

\* The verifiers' results for every set of documents a case can hold,
\* computed once.
VerifierTable ==
    UNION { UNION { { [equivalences |-> load_equivalences(store),
                       docs |-> docs,
                       results |-> VerifierResults(load_equivalences(store), docs)] :
                      docs \in CaseDocuments(case) } :
                    case \in Cases } :
            store \in EngineStoreInputs }

\* The results of the verifiers, read from the table where it has them.
VerifierResultsOf(equivalences, docs) ==
    IF \E e \in VerifierTable : e.equivalences = equivalences /\ e.docs = docs
    THEN (CHOOSE e \in VerifierTable :
              e.equivalences = equivalences /\ e.docs = docs).results
    ELSE VerifierResults(equivalences, docs)

\* VerificationEngine.verify_case(case): the three verifiers read the
\* documents, the report is computed and stored, or the call raises.
VerifyCase(case) ==
    /\ \E results \in VerifierResultsOf(matcher.equivalences,
                                         DocumentsOf(documents, case)) :
           \E call \in { verify_case(reports, case,
                                     results[1], results[2], results[3]) } :
               /\ reports' = call.reports
               /\ last_call' = [surgical_case |-> case,
                                raised |-> call.raised,
                                outcome |-> call.outcome,
                                computed |-> call.computed]
    /\ UNCHANGED << matcher_vars, score_call, service_vars, documents, verifier_call >>

Next ==
    \/ \E case \in Cases, t \in Range(DocumentTypes) : CreateDocument(case, t)
    \/ \E case \in Cases : VerifyCase(case)

Spec == Init /\ [][Next]_vars

(***************************************************************************)
(* Properties of SupplyMatcher.find_match (under SpecMatcher)              *)
(***************************************************************************)

\* The call under examination, normalized.
CallClean == SupplyMatcher_normalize_name(last_match.supply_name)
CandClean(i) == SupplyMatcher_normalize_name(last_match.candidate_names[i])
CandIdx == 1..Len(last_match.candidate_names)

IsExact(i) == CandClean(i) = CallClean
NoExactCandidate == \A i \in CandIdx : ~IsExact(i)

\* Candidate i normalizes to the canonical name or to an alias of entry e.
CandInEntry(i, e) == CandClean(i) = e.key \/ InSeq(CandClean(i), e.val)

Entries == Range(matcher.equivalences)

Similarity(i) == token_sort_ratio(CallClean, CandClean(i))

\* C8: whenever a candidate normalizes to the same string as the target,
\* the result is the first such candidate in list order with confidence
\* 100, whatever the table holds and whatever the other candidates score.
C8_ExactMatchFirst ==
    last_match.called =>
        \A i \in CandIdx :
            (IsExact(i) /\ \A j \in 1..(i - 1) : ~IsExact(j))
                => last_match.result
                       = Match(last_match.candidate_names[i], Rat(100, 1))

\* C8 witness: a call answered by the exact rule with the second candidate,
\* while the first candidate is one the equivalence table would give.
C8_Witness ==
    /\ last_match.called
    /\ Len(last_match.candidate_names) = 2
    /\ ~IsExact(1) /\ IsExact(2)
    /\ \E e \in Entries : InSeq(CallClean, e.val) /\ CandInEntry(1, e)
    /\ last_match.result.name = last_match.candidate_names[2]

\* C9 (as claimed): with no exact candidate, when the normalized target is
\* an alias of, or equals the canonical name of, an entry and a candidate
\* normalizes to that entry's canonical name or to one of its aliases, the
\* result is such a candidate with confidence exactly 95.
C9_EquivalenceMatch ==
    (last_match.called /\ NoExactCandidate) =>
        \A e \in Entries :
            ( /\ (InSeq(CallClean, e.val) \/ CallClean = e.key)
              /\ \E i \in CandIdx : CandInEntry(i, e) )
            => /\ last_match.result.found
               /\ last_match.result.confidence = Rat(95, 1)
               /\ \E i \in CandIdx, f \in Entries :
                      /\ last_match.result.name = last_match.candidate_names[i]
                      /\ CandInEntry(i, f)

\* The equivalence rule as find_match applies it: the target is an alias of
\* an entry that a candidate belongs to.
EquivalenceRuleApplies ==
    \E e \in Entries :
        InSeq(CallClean, e.val) /\ \E i \in CandIdx : CandInEntry(i, e)

\* C10: when neither the exact rule nor the equivalence rule applies, the
\* result is None if there is no candidate or the highest similarity is
\* below 85, and otherwise a candidate of highest similarity with that
\* similarity as confidence; every result that is not None names a
\* candidate and has confidence 100, 95 or between 85 and 100.
C10_FuzzyMatch ==
    last_match.called =>
        /\ (NoExactCandidate /\ ~EquivalenceRuleApplies) =>
               IF \A i \in CandIdx : RatLess(Similarity(i), Rat(85, 1))
               THEN last_match.result = None
               ELSE /\ last_match.result.found
                    /\ \E i \in CandIdx :
                          /\ last_match.result.name = last_match.candidate_names[i]
                          /\ last_match.result.confidence = Similarity(i)
                          /\ \A j \in CandIdx : RatLeq(Similarity(j), Similarity(i))
        /\ last_match.result.found =>
               /\ InSeq(last_match.result.name, last_match.candidate_names)
               /\ RatLeq(Rat(85, 1), last_match.result.confidence)
               /\ RatLeq(last_match.result.confidence, Rat(100, 1))

\* C10 witness: a fuzzy answer that is the second candidate, of a strictly
\* higher similarity than the first, which also passes the threshold.
C10_Witness ==
    /\ last_match.called
    /\ NoExactCandidate /\ ~EquivalenceRuleApplies
    /\ Len(last_match.candidate_names) = 2
    /\ RatLeq(Rat(85, 1), Similarity(1))
    /\ RatLess(Similarity(1), Similarity(2))
    /\ RatLess(Similarity(2), Rat(100, 1))
    /\ last_match.result = Match(last_match.candidate_names[2], Similarity(2))

\* C10 witness of the other branch: candidates, none similar enough.
C10_WitnessNone ==
    /\ last_match.called
    /\ NoExactCandidate /\ ~EquivalenceRuleApplies
    /\ last_match.candidate_names # << >>
    /\ \E i \in CandIdx : RatLess(Rat(0, 1), Similarity(i))
    /\ last_match.result = None

(***************************************************************************)
(* Properties of _calculate_overall_score (under SpecScore)                *)
(***************************************************************************)

\* The percentage a sub-result carries, 0 for one that carries none.
PctOf(d, k) == IF k \in DOMAIN d THEN d[k] ELSE Rat(0, 1)

\* 0.3 b + 0.5 s + 0.2 t of the call, in hundredths, as a fraction.
WeightedSum100 ==
    LET b == PctOf(score_call.basic_results, "match_percentage")
        su == PctOf(score_call.supply_results, "match_percentage")
        t == PctOf(score_call.traceability_results, "completion_percentage")
    IN  [num |-> 30 * b.num * su.den * t.den + 50 * su.num * b.den * t.den
                    + 20 * t.num * b.den * su.den,
         den |-> b.den * su.den * t.den]

AbsInt(x) == IF x < 0 THEN -x ELSE x

\* C1: the score is 0.3 x basic + 0.5 x supplies + 0.2 x traceability
\* rounded to two decimals (it is the multiple of 0.01 nearest to that
\* sum), a sub-result without a percentage counting as 0; for 80, 90 and
\* 95 it is 88.0.
C1_OverallScore ==
    score_call.called =>
        /\ 2 * AbsInt(score_call.result * WeightedSum100.den - WeightedSum100.num)
               <= WeightedSum100.den
        /\ ( /\ score_call.basic_results = [match_percentage |-> Rat(80, 1)]
             /\ score_call.supply_results = [match_percentage |-> Rat(90, 1)]
             /\ score_call.traceability_results
                    = [completion_percentage |-> Rat(95, 1)] )
               => score_call.result = 8800

\* C1 witness: the call of the engine's test, answered 88.0; and a call
\* with an error result is scored too.
C1_Witness ==
    /\ score_call.called
    /\ score_call.basic_results = [match_percentage |-> Rat(80, 1)]
    /\ score_call.supply_results = [match_percentage |-> Rat(90, 1)]
    /\ score_call.traceability_results = [completion_percentage |-> Rat(95, 1)]
    /\ score_call.result = 8800

C1_WitnessError ==
    /\ score_call.called
    /\ "error" \in DOMAIN score_call.basic_results
    /\ score_call.supply_results = [match_percentage |-> Rat(100, 3)]
    /\ score_call.traceability_results = [completion_percentage |-> Rat(100, 1)]
    /\ score_call.result = 3667

(***************************************************************************)
(* Properties of VerificationEngine.verify_case (under Spec)               *)
(***************************************************************************)

ReportsOf(rows, case) == { r \in rows : r.surgical_case = case }
CountOf(case) == Cardinality(DocumentsOf(documents, case))

\* The step is a verify_case call on the case (the only steps that leave
\* the documents alone are the calls).
VerifyStep(case) ==
    /\ documents' = documents
    /\ last_call'.surgical_case = case

\* C2: in every stored report requires_review is true iff basic_data_match
\* is false, or supplies_match is false, or traceability_complete is
\* false, or verification_score < 85.
C2_RequiresReview ==
    \A r \in reports :
        r.requires_review <=>
            \/ ~r.basic_data_match
            \/ ~r.supplies_match
            \/ ~r.traceability_complete
            \/ r.verification_score < 8500

\* A report that needs no review is stored.
C2_Witness == \E r \in reports : ~r.requires_review

\* A report whose score is not below 85 needs review for a flag, and a
\* report needs review for its score and flags.
C2_WitnessFlag ==
    \E r \in reports : r.requires_review /\ r.verification_score >= 8500
C2_WitnessScore ==
    \E r \in reports :
        r.requires_review /\ r.verification_score < 8500
            /\ r.supplies_match /\ r.traceability_complete

\* The flags, score and discrepancies of a stored report.
StoredValues(r) ==
    [stored |-> TRUE,
     basic_data_match |-> r.basic_data_match,
     supplies_match |-> r.supplies_match,
     traceability_complete |-> r.traceability_complete,
     requires_review |-> r.requires_review,
     discrepancies |-> r.discrepancies,
     verification_score |-> r.verification_score]

\* C3: a case has at most one report; after a verify_case call on it has
\* returned it has one, with the flags, score and discrepancies that call
\* computed; and the reports of a case stay as they are in every step that
\* is not a call on that case, so that the report of a case is always the
\* one of the most recent call on it.
C3_OneReportPerCase ==
    /\ [](\A case \in Cases :
             /\ Cardinality(ReportsOf(reports, case)) <= 1
             /\ (last_call.surgical_case = case /\ last_call.outcome = "returned")
                    => /\ ReportsOf(reports, case) # {}
                       /\ \A r \in ReportsOf(reports, case) :
                              StoredValues(r) = last_call.computed)
    /\ [][\A case \in Cases :
              ~VerifyStep(case)
                  => ReportsOf(reports', case) = ReportsOf(reports, case)]_vars

\* Both cases have a report, and the last call replaced a report by a
\* different one.
C3_Witness ==
    /\ \A case \in Cases : Cardinality(ReportsOf(reports, case)) = 1
    /\ last_call.outcome = "returned"
    /\ \E r \in reports :
           /\ r.surgical_case = last_call.surgical_case
           /\ r.basic_data_details.details # << >>

\* C4: a verify_case call ends by returning or by raising
\* VerificationError, and a call that raises leaves the stored reports as
\* they were before it: no report is added, none is changed.
C4_FailureLeavesReports ==
    /\ [](last_call.outcome \in {"none", "returned", "VerificationError"})
    /\ [][\A case \in Cases :
              (VerifyStep(case) /\ last_call'.raised # "none")
                  => /\ last_call'.outcome = "VerificationError"
                     /\ reports' = reports]_vars

\* The upsert raised in a call on a case that had a report, and in a call
\* on a case that had none.
C4_Witness ==
    /\ last_call.raised = "TypeError"
    /\ last_call.outcome = "VerificationError"
    /\ ReportsOf(reports, last_call.surgical_case) # {}
C4_WitnessAbsent ==
    /\ last_call.raised = "TypeError"
    /\ last_call.outcome = "VerificationError"
    /\ ReportsOf(reports, last_call.surgical_case) = {}

\* C5: a verify_case call on a case with n < 3 documents returns, and
\* leaves a report of the case whose basic result is the error result with
\* match false and the count n, with basic_data_match false and
\* requires_review true.
C5_InsufficientDocuments ==
    [][\A case \in Cases :
          (VerifyStep(case) /\ CountOf(case) < 3)
              => /\ last_call'.outcome = "returned"
                 /\ ReportsOf(reports', case) # {}
                 /\ \A r \in ReportsOf(reports', case) :
                        /\ ~r.basic_data_details.match
                        /\ Get(r.basic_data_details, "error", -1) = CountOf(case)
                        /\ ~r.basic_data_match
                        /\ r.requires_review]_vars

\* A case with two documents and a case with none have been verified.
C5_Witness ==
    \E c1, c2 \in Cases :
        /\ CountOf(c1) = 2 /\ CountOf(c2) = 0
        /\ \E r \in ReportsOf(reports, c1) : Get(r.basic_data_details, "error", -1) = 2
        /\ \E r \in ReportsOf(reports, c2) : Get(r.basic_data_details, "error", -1) = 0
C5_WitnessOne ==
    \E case \in Cases :
        /\ CountOf(case) = 1
        /\ \E r \in ReportsOf(reports, case) :
               Get(r.basic_data_details, "error", -1) = 1

\* C6: the report of a case with fewer than three documents has a
\* verification_score below 50 (documents are only added, so the report
\* was computed over no more documents than the case has).
C6_LowScore ==
    \A case \in Cases :
        CountOf(case) < 3
            => \A r \in ReportsOf(reports, case) : r.verification_score < 5000

\* C7: the verification_score of every report is between 0 and 100.
C7_ScoreRange ==
    \A r \in reports : 0 <= r.verification_score /\ r.verification_score <= 10000

\* A report with score 100 and a report with score 0 are stored.
C7_Witness ==
    /\ \E r \in reports : r.verification_score = 10000
    /\ \E r \in reports : r.verification_score = 0

(***************************************************************************)
(* The equivalence manager as a state machine: the table of                *)
(* SupplyEquivalence and the add_equivalence calls on it.                  *)
(***************************************************************************)

MaxAliases == 2

Users == { "u1", "u2" }

\* Canonical names given to add_equivalence: two that are one name after
\* normalization.
CanonicalInputs == { s_mn, s_MN }

\* Aliases given to it: two that differ in case only.
ManagerNames == { s_mn, s_MN }

AliasInputs == SeqsUpTo(ManagerNames, MaxAliases)

\* Tables the calls start from: none, and rows that were not made by
\* add_equivalence (an alias in upper case, not validated).
ManagerStoreInputs ==
    { << >>,
      << EquivalenceRow(s_abc, << s_abcd >>, 100, NoUser, FALSE),
         EquivalenceRow(s_mn, << s_MN >>, 90, NoUser, FALSE) >> }

InitManager ==
    /\ ScoreIdle
    /\ ServiceIdle
    /\ EngineIdle
    /\ equivalence_store \in ManagerStoreInputs
    /\ matcher = NoMatcher
    /\ last_match = NoMatchCall
    /\ last_add = NoAddCall

RecordedCall(entry, previous, canonical_name, aliases, user, is_auto) ==
    [called |-> TRUE, canonical_name |-> canonical_name, aliases |-> aliases,
     user |-> user, is_auto |-> is_auto, entry |-> entry, created |-> entry = 0,
     repeated |-> /\ previous.called
                  /\ previous.canonical_name = canonical_name
                  /\ previous.aliases = aliases
                  /\ previous.user = user
                  /\ previous.is_auto = is_auto]

\* The call of add_equivalence as last_add records it: its arguments, the
\* index of the row get_or_create found (0 when it created one), and
\* whether the call repeats the one before.
AddCall(rows, previous, canonical_name, aliases, user, is_auto) ==
    RecordedCall(RowOf(rows, EquivalenceManager_normalize_name(canonical_name)),
                 previous, canonical_name, aliases, user, is_auto)

\* EquivalenceManager().add_equivalence(canonical_name, aliases, user, is_auto)
AddEquivalence(canonical_name, aliases, user, is_auto) ==
    /\ equivalence_store' = add_equivalence(equivalence_store, canonical_name,
                                            aliases, user, is_auto)
    /\ last_add' = AddCall(equivalence_store, last_add, canonical_name,
                           aliases, user, is_auto)
    /\ UNCHANGED << matcher, last_match, score_call, service_vars, engine_vars >>

NextManager ==
    \E canonical_name \in CanonicalInputs, aliases \in AliasInputs,
       user \in Users \cup { NoUser }, is_auto \in BOOLEAN :
        AddEquivalence(canonical_name, aliases, user, is_auto)

SpecManager == InitManager /\ [][NextManager]_vars

\* C18: after any sequence of add_equivalence calls no entry's alias list
\* holds two elements that are equal case-insensitively.
C18_NoDuplicateAliases ==
    \A i \in 1..Len(equivalence_store) :
        \A j, k \in 1..Len(equivalence_store[i].aliases) :
            j # k => Lower(equivalence_store[i].aliases[j])
                         # Lower(equivalence_store[i].aliases[k])

\* The step is an add_equivalence call.
AddStep == last_add' # last_add

\* C19: add_equivalence is idempotent: a call that repeats the arguments
\* of the call just before it leaves every entry (canonical name, aliases,
\* confidence_score, validated_by, is_auto_generated) as that call left it.
C19_Idempotent ==
    [][(AddStep /\ last_add'.repeated)
           => equivalence_store' = equivalence_store]_vars

\* A call with aliases and a submitter was made twice in succession, on an
\* entry the first of the two calls created.
C19_Witness ==
    /\ last_add.repeated
    /\ last_add.aliases # << >>
    /\ last_add.user # NoUser
    /\ \E i \in 1..Len(equivalence_store) :
           /\ equivalence_store[i].canonical_name
                  = EquivalenceManager_normalize_name(last_add.canonical_name)
           /\ equivalence_store[i].aliases = NormalizeAliases(last_add.aliases)
           /\ equivalence_store[i].validated_by = last_add.user

\* The same on an entry that was there before and got a new alias and its
\* validation from the first of the two calls.
C19_WitnessUpdate ==
    /\ last_add.repeated
    /\ last_add.user # NoUser
    /\ \E i \in 1..Len(equivalence_store) :
           /\ equivalence_store[i].canonical_name
                  = EquivalenceManager_normalize_name(last_add.canonical_name)
           /\ equivalence_store[i].validated_by = last_add.user
           /\ equivalence_store[i].confidence_score = 100
           /\ equivalence_store[i].is_auto_generated
           /\ Len(equivalence_store[i].aliases) > Len(last_add.aliases)

\* The index of the entry an add_equivalence call found, in the table
\* before the call.
EntryBefore == last_add'.entry

\* C20: a created entry gets confidence_score 0.8 if is_auto, else 1.0; an
\* existing entry without validated_by gets the submitter and 1.0 when one
\* is given; in every other case validated_by and confidence_score stay, so
\* confidence_score never decreases and validated_by is never replaced.
C20_Confidence ==
    [][AddStep =>
          LET entry == EntryBefore
              old == equivalence_store[entry]
              new == equivalence_store'[entry]
          IN  /\ IF entry = 0
                 THEN /\ Len(equivalence_store') = Len(equivalence_store) + 1
                      /\ equivalence_store'[Len(equivalence_store')].confidence_score
                             = IF last_add'.is_auto THEN 80 ELSE 100
                 ELSE IF old.validated_by = NoUser /\ last_add'.user # NoUser
                 THEN /\ new.validated_by = last_add'.user
                      /\ new.confidence_score = 100
                 ELSE /\ new.validated_by = old.validated_by
                      /\ new.confidence_score = old.confidence_score
              /\ \A i \in 1..Len(equivalence_store) :
                     /\ equivalence_store'[i].confidence_score
                            >= equivalence_store[i].confidence_score
                     /\ equivalence_store[i].validated_by # NoUser
                            => equivalence_store'[i].validated_by
                                   = equivalence_store[i].validated_by]_vars

\* A call by a submitter on an entry another submitter validated: the
\* entry keeps its validator.
C20_Witness ==
    /\ last_add.called /\ ~last_add.created
    /\ last_add.user \in Users
    /\ \E i \in 1..Len(equivalence_store) :
           /\ equivalence_store[i].canonical_name
                  = EquivalenceManager_normalize_name(last_add.canonical_name)
           /\ equivalence_store[i].validated_by \in Users \ { last_add.user }

\* An automatic entry, created at 0.8 without a submitter, that a later
\* call validated.
C20_WitnessValidated ==
    /\ last_add.called /\ ~last_add.created
    /\ \E i \in 1..Len(equivalence_store) :
           /\ equivalence_store[i].is_auto_generated
           /\ equivalence_store[i].validated_by = last_add.user
           /\ last_add.user \in Users
           /\ equivalence_store[i].confidence_score = 100

\* An entry created by an automatic call: 0.8.
C20_WitnessCreated ==
    /\ last_add.called /\ last_add.created /\ last_add.is_auto
    /\ \E i \in 1..Len(equivalence_store) :
           equivalence_store[i].confidence_score = 80

(***************************************************************************)
(* A matcher beside the equivalence manager: the table changes under       *)
(* add_equivalence calls, matchers are constructed, find_match is called.  *)
(***************************************************************************)

\* The arguments of the add_equivalence calls: a new entry, a new alias
\* on it.
ReloadAliasInputs == { << s_mn >>, << s_abc >>, << s_mn, s_abc >> }

\* The arguments of the find_match calls.
ReloadNames == { s_mn, s_abcd }
ReloadCandidates == { << s_abc >>, << s_mn >> }

InitReload ==
    /\ ScoreIdle
    /\ ServiceIdle
    /\ EngineIdle
    /\ equivalence_store = << >>
    /\ matcher = NoMatcher
    /\ last_match = NoMatchCall
    /\ last_add = NoAddCall

\* A find_match that reads the table of SupplyEquivalence at each call.
MatcherTable_requery(m, rows) == load_equivalences(rows)

\* The table find_match reads: self.equivalences, as __init__ loaded it.
MatcherTable(m, rows) == m.equivalences

\* SupplyMatcher(): a matcher is constructed over the table as it is.
ConstructMatcher ==
    /\ matcher' = [constructed |-> TRUE,
                   equivalences |-> load_equivalences(equivalence_store)]
    /\ UNCHANGED << equivalence_store, last_match, last_add, score_call, service_vars,
                    engine_vars >>

\* matcher.find_match(supply_name, candidate_names); after_add records
\* whether the table had changed since the matcher was constructed.
FindMatchOn(supply_name, candidate_names) ==
    /\ matcher.constructed
    /\ last_match' =
           [called |-> TRUE, supply_name |-> supply_name,
            candidate_names |-> candidate_names,
            result |-> find_match(MatcherTable(matcher, equivalence_store),
                                  supply_name, candidate_names),
            after_add |-> load_equivalences(equivalence_store)
                              # matcher.equivalences]
    /\ UNCHANGED << equivalence_store, matcher, last_add, score_call, service_vars,
                    engine_vars >>

NextReload ==
    \/ \E aliases \in ReloadAliasInputs :
           AddEquivalence(s_mn, aliases, NoUser, FALSE)
    \/ ConstructMatcher
    \/ \E supply_name \in ReloadNames, candidate_names \in ReloadCandidates :
           FindMatchOn(supply_name, candidate_names)

SpecReload == InitReload /\ [][NextReload]_vars

\* C11: a matcher uses the table as it was when it was constructed: a
\* construction loads the table of that moment, no add_equivalence call
\* changes what a matcher holds, and every find_match call returns what
\* the matcher's own table gives, whatever was added since.
C11_TableAtConstruction ==
    /\ [][matcher' # matcher
              => matcher'.equivalences = load_equivalences(equivalence_store)]_vars
    /\ [][equivalence_store' # equivalence_store => matcher' = matcher]_vars
    /\ [][last_match' # last_match
              => /\ matcher' = matcher
                 /\ last_match'.result
                        = find_match(matcher.equivalences,
                                     last_match'.supply_name,
                                     last_match'.candidate_names)]_vars

\* A call made after an alias was added returned None where a matcher
\* constructed now returns the alias.
C11_Witness ==
    /\ last_match.called
    /\ Get(last_match, "after_add", FALSE)
    /\ ~last_match.result.found
    /\ find_match(load_equivalences(equivalence_store), last_match.supply_name,
                  last_match.candidate_names).found

\* A matcher constructed after the calls returned a match the empty table
\* does not give.
C11_WitnessFresh ==
    /\ last_match.called
    /\ ~Get(last_match, "after_add", TRUE)
    /\ last_add.called
    /\ matcher.equivalences = load_equivalences(equivalence_store)
    /\ last_match.result.found
    /\ ~find_match(<< >>, last_match.supply_name,
                   last_match.candidate_names).found

(***************************************************************************)
(* The three verifiers as a state machine: the documents or the line       *)
(* items a verifier reads are drawn, the verifier is called.               *)
(***************************************************************************)

MaxLines == 2

\* Line items of the three documents.  'Abcd' is 'abcd' after
\* normalization, 'abc' is within the fuzzy threshold of it, 'mn!' is 'mn'.
InternalItems ==
    { Item(s_abcd, 1, c_ref, c_lot, TRUE), Item(s_mn, 2, << >>, << >>, FALSE) }
HospitalItems == { Line(s_Abcd, 1), Line(s_Abcd, 2), Line(s_abc, 1) }
DescriptionItems == { Line(s_mn_bang, 2), Line(s_abcd, 2) }

\* An internal report of ten items, nine of which are in the hospital's
\* report: 90 per cent.
NineOfTen ==
    [i \in 1..10 |-> IF i < 10 THEN Item(s_abcd, 1, c_ref, c_lot, TRUE)
                     ELSE Item(s_bang, 1, c_ref, c_lot, TRUE)]

\* One of twenty items, nineteen of which are complete: 95 per cent.
NineteenOfTwenty ==
    [i \in 1..20 |-> IF i < 20 THEN Item(s_abcd, 1, c_ref, c_lot, TRUE)
                     ELSE Item(s_abcd, 1, c_ref, << >>, TRUE)]

\* What a case has of a type: no document, or a document with its line
\* items, none included.
Absent == [present |-> FALSE, items |-> << >>]
Present(items) == [present |-> TRUE, items |-> items]
ItemLists(items) == { Present(l) : l \in SeqsUpTo(items, MaxLines) } \cup { Absent }

\* supplies_by_doc: the lists by the types of the documents there are.
SuppliesByDoc(internal, hospital, description) ==
    LET lists == [t \in Range(DocumentTypes) |->
                     IF t = INTERNAL THEN internal
                     ELSE IF t = HOSPITAL THEN hospital ELSE description]
    IN  [t \in { x \in Range(DocumentTypes) : lists[x].present } |-> lists[t].items]

SupplyInputs ==
    { SuppliesByDoc(i, h, d) : i \in ItemLists(InternalItems),
                               h \in ItemLists(HospitalItems),
                               d \in ItemLists(DescriptionItems) }
        \cup { SuppliesByDoc(Present(NineOfTen), Present(<< Line(s_Abcd, 1) >>),
                            Present(<< Line(s_abcd, 2) >>)) }

\* Items of the internal report with every combination of REF, LOT and UDI.
TraceabilityItems ==
    { Item(s_abcd, 1, ref, lot, udi) :
          ref \in { << >>, c_ref }, lot \in { << >>, c_lot }, udi \in BOOLEAN }

\* The internal report verify_traceability reads, if there is one.
InternalReport(internal) ==
    IF ~internal.present THEN {}
    ELSE { DocumentRow("case1", INTERNAL,
                       [fields |-> NoFields, supplies |-> internal.items]) }

TraceabilityInputs == ItemLists(TraceabilityItems) \cup { Present(NineteenOfTwenty) }

VerifierCalls ==
    { [verifier |-> "supplies", called |-> FALSE, input |-> sbd] :
          sbd \in SupplyInputs }
        \cup { [verifier |-> "traceability", called |-> FALSE, input |-> l] :
                   l \in TraceabilityInputs }
        \cup { [verifier |-> "basic", called |-> FALSE, input |-> docs] :
                   docs \in CaseDocuments("case1") }

InitVerifiers ==
    /\ ScoreIdle
    /\ ServiceIdle
    /\ equivalence_store \in EngineStoreInputs
    /\ matcher = [constructed |-> TRUE,
                  equivalences |-> load_equivalences(equivalence_store)]
    /\ last_match = NoMatchCall
    /\ last_add = NoAddCall
    /\ documents = {}
    /\ reports = {}
    /\ last_call = NoCall
    /\ verifier_call \in VerifierCalls

\* The call as verifier_call records it once it returned.
Returned(call, result) ==
    [verifier |-> call.verifier, called |-> TRUE, input |-> call.input,
     result |-> result]

\* BasicDataVerifier().verify_case(case)
VerifyBasicData ==
    /\ verifier_call.verifier = "basic" /\ ~verifier_call.called
    /\ \E result \in BasicDataVerifier_verify_case(verifier_call.input) :
           verifier_call' = Returned(verifier_call, result)
    /\ UNCHANGED << matcher_vars, score_call, service_vars, documents, reports, last_call >>

\* SupplyVerifier().verify_supplies(case)
VerifySupplies ==
    /\ verifier_call.verifier = "supplies" /\ ~verifier_call.called
    /\ verifier_call' = Returned(verifier_call,
                                 verify_supplies(matcher.equivalences,
                                                 verifier_call.input))
    /\ UNCHANGED << matcher_vars, score_call, service_vars, documents, reports, last_call >>

\* TraceabilityVerifier().verify_traceability(case)
VerifyTraceability ==
    /\ verifier_call.verifier = "traceability" /\ ~verifier_call.called
    /\ verifier_call' =
           Returned(verifier_call,
                    verify_traceability(InternalReport(verifier_call.input),
                                        verifier_call.input.items))
    /\ UNCHANGED << matcher_vars, score_call, service_vars, documents, reports, last_call >>

NextVerifiers == VerifyBasicData \/ VerifySupplies \/ VerifyTraceability

SpecVerifiers == InitVerifiers /\ [][NextVerifiers]_vars

\* A call of verify_supplies that returned a result with a percentage.
SuppliesVerified ==
    /\ verifier_call.verifier = "supplies" /\ verifier_call.called
    /\ "match_percentage" \in DOMAIN verifier_call.result

\* The item of a document selected for a matched name: the first of that
\* name.
SelectedItem(items, name) ==
    items[CHOOSE i \in DOMAIN items :
              items[i].name = name /\ \A j \in 1..(i - 1) : items[j].name # name]

\* The matcher returns a match for the baseline item among the items of
\* the document of a type, and the item selected has the baseline quantity.
ReconciledIn(equivalences, item, items) ==
    /\ items # << >>
    /\ LET m == find_match(equivalences, item.name,
                           [i \in DOMAIN items |-> items[i].name])
       IN  m.found /\ SelectedItem(items, m.name).quantity = item.quantity

\* The baseline items of a verify_supplies call that are counted.
CountedItems(result) ==
    { k \in DOMAIN result.supplies_details :
          result.supplies_details[k].name_match
              /\ result.supplies_details[k].quantity_match }

\* C14: a baseline item is counted in matched_supplies if and only if the
\* hospital's or the description's document has a match for its name whose
\* selected item has the baseline quantity.
C14_Reconciled ==
    SuppliesVerified =>
        LET internal == Get(verifier_call.input, INTERNAL, << >>)
            result == verifier_call.result
        IN  /\ DOMAIN result.supplies_details = DOMAIN internal
            /\ result.matched_supplies = Cardinality(CountedItems(result))
            /\ \A k \in DOMAIN internal :
                   k \in CountedItems(result)
                       <=> \E t \in { HOSPITAL, DESCRIPTION } :
                               ReconciledIn(matcher.equivalences, internal[k],
                                            Get(verifier_call.input, t, << >>))

\* An item whose name is matched in the hospital's document by an item of
\* another quantity, beside an item of the baseline quantity that is not
\* the matched one: not counted.
C14_Witness ==
    /\ SuppliesVerified
    /\ \E k \in DOMAIN verifier_call.result.supplies_details :
           LET detail == verifier_call.result.supplies_details[k]
               hospital == Get(verifier_call.input, HOSPITAL, << >>)
           IN  /\ detail.name_match /\ ~detail.quantity_match
               /\ detail.hospital_matches # << >>
               /\ detail.description_matches = << >>
               /\ \E i \in DOMAIN hospital :
                      hospital[i].quantity = detail.internal_quantity

\* An item that is counted for the description's document alone.
C14_WitnessCounted ==
    /\ SuppliesVerified
    /\ \E k \in CountedItems(verifier_call.result) :
           LET detail == verifier_call.result.supplies_details[k]
           IN  /\ detail.hospital_matches = << >>
               /\ detail.description_matches # << >>

\* C15: if any of the three variants has no line items in the case,
\* verify_supplies returns an error result: match false, an error message,
\* no match_percentage.
C15_EmptyVariant ==
    (/\ verifier_call.verifier = "supplies" /\ verifier_call.called
     /\ \E t \in Range(DocumentTypes) : Get(verifier_call.input, t, << >>) = << >>)
        => /\ ~verifier_call.result.match
           /\ "error" \in DOMAIN verifier_call.result
           /\ "match_percentage" \notin DOMAIN verifier_call.result

\* A call of verify_traceability that returned the results of the items.
TraceabilityVerified ==
    /\ verifier_call.verifier = "traceability" /\ verifier_call.called
    /\ "completion_percentage" \in DOMAIN verifier_call.result

\* The issues an item must carry: one per failing component.
ExpectedIssues(item) ==
    (IF item.ref_code = << >> THEN { "Falta codigo REF" } ELSE {})
        \cup (IF item.lot_code = << >> THEN { "Falta codigo LOT" } ELSE {})
        \cup (IF ~item.udi_label_present THEN { "Falta etiqueta UDI" } ELSE {})

\* C16: a baseline item is complete if and only if ref_code and lot_code
\* are non-empty and udi_label_present is true; its issues are one entry
\* per failing component; an empty lot_code gives complete = false and the
\* missing-LOT issue whatever the other two are.
C16_ItemTraceability ==
    TraceabilityVerified =>
        LET items == verifier_call.input.items
            details == verifier_call.result.details
        IN  /\ DOMAIN details = DOMAIN items
            /\ \A k \in DOMAIN items :
                   /\ details[k].complete
                          <=> /\ items[k].ref_code # << >>
                              /\ items[k].lot_code # << >>
                              /\ items[k].udi_label_present
                   /\ Range(details[k].issues) = ExpectedIssues(items[k])
                   /\ Len(details[k].issues) = Cardinality(ExpectedIssues(items[k]))
                   /\ details[k].complete <=> details[k].issues = << >>
                   /\ items[k].lot_code = << >>
                          => /\ ~details[k].complete
                             /\ "Falta codigo LOT" \in Range(details[k].issues)

\* An item with REF and UDI and no LOT was verified.
C16_Witness ==
    /\ TraceabilityVerified
    /\ \E k \in DOMAIN verifier_call.input.items :
           /\ verifier_call.input.items[k].ref_code # << >>
           /\ verifier_call.input.items[k].lot_code = << >>
           /\ verifier_call.input.items[k].udi_label_present
           /\ verifier_call.result.details[k].issues = << "Falta codigo LOT" >>

\* A call of BasicDataVerifier.verify_case that returned the results of
\* the fields.
BasicVerified ==
    /\ verifier_call.verifier = "basic" /\ verifier_call.called
    /\ "match_percentage" \in DOMAIN verifier_call.result

\* The flag and the percentage for a count out of a total and a threshold:
\* count / total x 100, 0 and false for no items.
FlagAgrees(flag, percentage, count, total, threshold) ==
    IF total = 0
    THEN percentage = Rat(0, 1) /\ ~flag
    ELSE /\ RatEq(percentage, [num |-> 100 * count, den |-> total])
         /\ flag <=> 100 * count >= threshold * total

\* C17: in every result that is not an error the flag agrees with the
\* percentage and its threshold: basic match iff matched fields / 6 x 100
\* >= 80 (five fields of six), supplies match iff counted / baseline x 100
\* >= 90, traceability complete iff complete / baseline x 100 >= 95; without
\* baseline items the percentage is 0 and the flag false.
C17_FlagAndPercentage ==
    /\ BasicVerified =>
           LET result == verifier_call.result
               matched == Cardinality({ f \in Range(BasicFields) :
                                           result.details[f].match })
           IN  /\ FlagAgrees(result.match, result.match_percentage, matched, 6, 80)
               /\ result.match <=> matched >= 5
    /\ SuppliesVerified =>
           LET result == verifier_call.result
           IN  FlagAgrees(result.match, result.match_percentage,
                          Cardinality(CountedItems(result)),
                          Len(Get(verifier_call.input, INTERNAL, << >>)), 90)
    /\ TraceabilityVerified =>
           LET result == verifier_call.result
           IN  FlagAgrees(result.complete, result.completion_percentage,
                          Cardinality({ k \in DOMAIN result.details :
                                           result.details[k].complete }),
                          Len(verifier_call.input.items), 95)

\* Nine of ten baseline items are counted: 90 per cent, match.
C17_Witness ==
    /\ SuppliesVerified
    /\ verifier_call.result.total_supplies = 10
    /\ verifier_call.result.matched_supplies = 9
    /\ verifier_call.result.match

\* Nineteen of twenty items are complete: 95 per cent, complete.
C17_WitnessTraceability ==
    /\ TraceabilityVerified
    /\ Len(verifier_call.input.items) = 20
    /\ RatEq(verifier_call.result.completion_percentage, Rat(95, 1))
    /\ verifier_call.result.complete

\* Five of the six fields match, and four of them: match, and none.
C17_WitnessFive ==
    /\ BasicVerified
    /\ Cardinality({ f \in Range(BasicFields) :
                        verifier_call.result.details[f].match }) = 5
    /\ verifier_call.result.match

C17_WitnessFour ==
    /\ BasicVerified
    /\ Cardinality({ f \in Range(BasicFields) :
                        verifier_call.result.details[f].match }) = 4
    /\ ~verifier_call.result.match

\* No baseline items: an internal report without items for traceability,
\* no internal report for the supplies.
C17_WitnessNoItems ==
    \/ /\ TraceabilityVerified
       /\ verifier_call.input.items = << >>
    \/ /\ SuppliesVerified
       /\ INTERNAL \notin DOMAIN verifier_call.input

(***************************************************************************)
(* The verifiers over the documents of the engine's cases                  *)
(***************************************************************************)

\* Every extracted field has the same value in all the documents.
SameFields(docs) ==
    \A d1, d2 \in docs :
        /\ d1.extracted_patient_name = d2.extracted_patient_name
        /\ d1.extracted_patient_id = d2.extracted_patient_id
        /\ d1.extracted_date = d2.extracted_date
        /\ d1.extracted_city = d2.extracted_city
        /\ d1.extracted_doctor = d2.extracted_doctor
        /\ d1.extracted_procedure = d2.extracted_procedure

\* C12: for a case with three documents in which each of the six fields
\* has the same value in all three, the empty value included, all six
\* fields match, match_percentage is 100 and match is true.
C12_IdenticalFields ==
    \A case \in Cases :
        LET docs == DocumentsOf(documents, case)
        IN  (Cardinality(docs) = 3 /\ SameFields(docs))
                => \A res \in BasicDataVerifier_verify_case(docs) :
                       /\ res.match
                       /\ res.match_percentage = Rat(100, 1)
                       /\ \A f \in Range(BasicFields) : res.details[f].match

\* C13: when the three documents give two or more distinct non-empty
\* normalized names for patient_name or doctor, the field matches if and
\* only if every pair of those names has ratio >= 85, whichever of the
\* names the comparison starts from.
C13_AllPairs ==
    \A case \in Cases, f \in { "patient_name", "doctor" } :
        LET docs == DocumentsOf(documents, case)
            names == NameUniqueValues(FieldValues(f, DocData(docs)))
        IN  (Cardinality(docs) = 3 /\ Cardinality(names) >= 2)
                => \A res \in BasicDataVerifier_verify_case(docs) :
                       res.details[f].match
                           <=> \A a, b \in names :
                                   RatLeq(Rat(similarity_threshold, 1), ratio(a, b))

(***************************************************************************)
(* The name functions of the two services as a state machine: a name is    *)
(* drawn, a normalizer is called on it and on what it returned.            *)
(***************************************************************************)

MaxNameLen == 3

\* The characters of the names: a letter, the space, a character both
\* normalizers remove, the multiplication sign, a digit and the 'x'.
NameChars == { "a", " ", "!", "×", "1", "x" }

s_standardd == << "s", "t", "a", "n", "d", "a", "r", "d", "d" >>
s_1x1x1 == << "1", "×", "1", "×", "1" >>

NameInputs == SeqsUpTo(NameChars, MaxNameLen) \cup { s_standardd, s_1x1x1 }

MaxNames == 3

\* The names of the lists suggest_equivalences is given: 'Abcd' is 'abcd'
\* once normalized, 'abc' is at 85.7 of 'abcd' and at 80 of 'ab'.
SuggestNames == { s_abcd, s_Abcd, s_abc, t_ab, s_mn }

NameCalls ==
    { [op |-> op, called |-> FALSE, name |-> name] :
          op \in { "SupplyMatcher", "EquivalenceManager" }, name \in NameInputs }
        \cup { [op |-> "suggest", called |-> FALSE, supply_names |-> names] :
                   names \in SeqsUpTo(SuggestNames, MaxNames) }

InitNames ==
    /\ ScoreIdle
    /\ EngineIdle
    /\ equivalence_store \in ManagerStoreInputs
    /\ matcher = NoMatcher
    /\ last_match = NoMatchCall
    /\ last_add = NoAddCall
    /\ name_call \in NameCalls
    /\ WritersIdle /\ VerifyingIdle /\ ProcessorIdle

\* The call as name_call records it: the key the normalizer returned for
\* the name, and what it returned for the key.
Normalized(call, key, again) ==
    [op |-> call.op, called |-> TRUE, name |-> call.name, key |-> key,
     again |-> again]

\* SupplyMatcher._normalize_name(name), then the same on its result.
MatcherNormalize ==
    /\ name_call.op = "SupplyMatcher" /\ ~name_call.called
    /\ \E key \in { SupplyMatcher_normalize_name(name_call.name) } :
           name_call' = Normalized(name_call, key, SupplyMatcher_normalize_name(key))
    /\ UNCHANGED << matcher_vars, score_call, engine_vars, writers, verifying, processor, cases >>

\* EquivalenceManager._normalize_name(name), then the same on its result.
ManagerNormalize ==
    /\ name_call.op = "EquivalenceManager" /\ ~name_call.called
    /\ \E key \in { EquivalenceManager_normalize_name(name_call.name) } :
           name_call' = Normalized(name_call, key,
                                   EquivalenceManager_normalize_name(key))
    /\ UNCHANGED << matcher_vars, score_call, engine_vars, writers, verifying, processor, cases >>

\* EquivalenceManager().suggest_equivalences(supply_names)
SuggestEquivalences ==
    /\ name_call.op = "suggest" /\ ~name_call.called
    /\ name_call' = [op |-> "suggest", called |-> TRUE,
                     supply_names |-> name_call.supply_names,
                     suggestions |-> suggest_equivalences(name_call.supply_names)]
    /\ UNCHANGED << matcher_vars, score_call, engine_vars, writers, verifying, processor, cases >>

NextNames == MatcherNormalize \/ ManagerNormalize \/ SuggestEquivalences

SpecNames == InitNames /\ [][NextNames]_vars

\* C21: normalizing a name a second time changes nothing, with either
\* normalizer: normalize(normalize(s)) = normalize(s).
C21_Idempotent ==
    (name_call.called /\ name_call.op \in { "SupplyMatcher", "EquivalenceManager" })
        => name_call.again = name_call.key

\* C22: the two normalizers give a name the same key.
C22_SameKey ==
    (name_call.called /\ name_call.op \in { "SupplyMatcher", "EquivalenceManager" })
        => /\ SupplyMatcher_normalize_name(name_call.name) = name_call.key
           /\ EquivalenceManager_normalize_name(name_call.name) = name_call.key

\* A call of suggest_equivalences that returned.
Suggested == name_call.op = "suggest" /\ name_call.called

\* Another name of the list is similar to the candidate: a different
\* string whose normalized form is at 80 or more of the candidate's.
HasSimilarName(candidate, supply_names) ==
    \E i \in DOMAIN supply_names :
        /\ supply_names[i] # candidate
        /\ RatLeq(Rat(80, 1),
                  token_sort_ratio(EquivalenceManager_normalize_name(candidate),
                                   EquivalenceManager_normalize_name(supply_names[i])))

\* C23: suggest_equivalences leaves the table of equivalences as it was,
\* and every suggestion it returns is for a name of the list to which
\* another name of the list is similar (80 or more once normalized).
C23_SuggestOnly ==
    /\ [][(name_call' # name_call /\ name_call'.op = "suggest")
              => equivalence_store' = equivalence_store]_vars
    /\ [](Suggested =>
              \A k \in DOMAIN name_call.suggestions :
                  LET suggestion == name_call.suggestions[k]
                  IN  /\ InSeq(suggestion.canonical_candidate,
                               name_call.supply_names)
                      /\ HasSimilarName(suggestion.canonical_candidate,
                                        name_call.supply_names))

\* suggest_equivalences returned a suggestion over a table that has entries.
C23_Witness ==
    /\ Suggested
    /\ name_call.suggestions # << >>
    /\ equivalence_store # << >>

\* A list of two names and more of which none is suggested, one of them
\* twice in the list.
C23_WitnessNone ==
    /\ Suggested
    /\ name_call.suggestions = << >>
    /\ \E i, j \in DOMAIN name_call.supply_names :
           i # j /\ name_call.supply_names[i] = name_call.supply_names[j]

(***************************************************************************)
(* add_equivalence by two callers at once: each call is the sequence of    *)
(* its queries, get_or_create, then one save per alias add_alias appends,  *)
(* then the save of the validation; the queries of the two interleave.     *)
(***************************************************************************)

MaxWriterAliases == 1

WriterAliases == { s_abcd, t_ab, s_abc }
WriterAliasInputs == SeqsUpTo(WriterAliases, MaxWriterAliases)

\* The table has the entry 'mn' with one alias, or nothing.
WriterStoreInputs ==
    { << >>, << EquivalenceRow(s_mn, << s_abc >>, 80, NoUser, TRUE) >> }

InitWriters ==
    /\ ScoreIdle
    /\ EngineIdle
    /\ NamesIdle /\ WritersIdle /\ VerifyingIdle /\ ProcessorIdle
    /\ equivalence_store \in WriterStoreInputs
    /\ matcher = NoMatcher
    /\ last_match = NoMatchCall
    /\ last_add = NoAddCall

\* The queries issued so far, and the callers whose call has returned.
Clock(ws) == ws["w1"].steps + ws["w2"].steps
ReturnedWriters(ws) == { w \in Writers : ws[w].pc = "done" }

\* get_or_create: the entry is created with the defaults and the call
\* returns, or the entry there is becomes the caller's instance.
Begin(w, canonical_name, aliases, user) ==
    /\ writers[w].pc = "idle"
    /\ \E canonical_clean \in { EquivalenceManager_normalize_name(canonical_name) } :
       \E entry \in { RowOf(equivalence_store, canonical_clean) } :
           /\ equivalence_store' =
                  IF entry = 0
                  THEN Append(equivalence_store,
                              CreateEquivalence(canonical_clean,
                                                NormalizeAliases(aliases),
                                                user, FALSE))
                  ELSE equivalence_store
           /\ writers' = [writers EXCEPT ![w] =
                  [pc |-> IF entry = 0 THEN "done" ELSE "merge",
                   steps |-> 1,
                   canonical_name |-> canonical_name,
                   aliases |-> aliases,
                   user |-> user,
                   created |-> entry = 0,
                   equivalence |-> IF entry = 0 THEN equivalence_store'[Len(equivalence_store')]
                                   ELSE equivalence_store[entry],
                   pending |-> IF entry = 0 THEN << >> ELSE NormalizeAliases(aliases),
                   before |-> equivalence_store,
                   after |-> ReturnedWriters(writers),
                   read_at |-> Clock(writers) + 1,
                   first_save |-> 0,
                   last_save |-> 0]]
    /\ UNCHANGED << matcher, last_match, last_add, score_call, engine_vars, name_call, verifying, processor, cases >>

\* What a save at this moment leaves in the caller's record.
Saved(writer, now) ==
    [writer EXCEPT !.first_save = IF @ = 0 THEN now ELSE @, !.last_save = now]

\* equivalence.add_alias(alias) for the next alias of the loop: the alias
\* is appended to the instance and the instance saved, if the instance
\* does not have it.
AddAlias(w) ==
    /\ writers[w].pc = "merge"
    /\ writers[w].pending # << >>
    /\ \E merged \in { add_alias(writers[w].equivalence, Head(writers[w].pending)) } :
       \E stepped \in { [writers[w] EXCEPT !.equivalence = merged,
                                           !.pending = Tail(@),
                                           !.steps = @ + 1] } :
           IF merged # writers[w].equivalence
           THEN /\ equivalence_store' = SaveRow(equivalence_store, merged)
                /\ writers' = [writers EXCEPT ![w] = Saved(stepped, Clock(writers) + 1)]
           ELSE /\ equivalence_store' = equivalence_store
                /\ writers' = [writers EXCEPT ![w] = stepped]
    /\ UNCHANGED << matcher, last_match, last_add, score_call, engine_vars, name_call, verifying, processor, cases >>

\* The end of the call: the submitter validates the instance if no one
\* has, and the instance is saved.
Finish(w) ==
    /\ writers[w].pc = "merge"
    /\ writers[w].pending = << >>
    /\ \E stepped \in { [writers[w] EXCEPT !.pc = "done", !.steps = @ + 1] } :
           IF writers[w].user # NoUser /\ writers[w].equivalence.validated_by = NoUser
           THEN \E validated \in { [writers[w].equivalence EXCEPT
                                       !.validated_by = writers[w].user,
                                       !.confidence_score = 100] } :
                    /\ equivalence_store' = SaveRow(equivalence_store, validated)
                    /\ writers' = [writers EXCEPT ![w] =
                           Saved([stepped EXCEPT !.equivalence = validated],
                                 Clock(writers) + 1)]
           ELSE /\ equivalence_store' = equivalence_store
                /\ writers' = [writers EXCEPT ![w] = stepped]
    /\ UNCHANGED << matcher, last_match, last_add, score_call, engine_vars, name_call, verifying, processor, cases >>

NextWriters ==
    \/ \E w \in Writers, aliases \in WriterAliasInputs, user \in { NoUser, "u1" } :
           Begin(w, s_MN, aliases, user)
    \/ \E w \in Writers : AddAlias(w)
    \/ \E w \in Writers : Finish(w)

SpecWriters == InitWriters /\ [][NextWriters]_vars

\* Both calls have returned; the caller other than w; the calls were one
\* after the other when one began after the other had returned.
BothReturned == \A w \in Writers : writers[w].pc = "done"
OtherWriter(w) == CHOOSE o \in Writers : o # w
Serialized == \E w \in Writers : OtherWriter(w) \in writers[w].after

\* The entry 'mn' of the table, and whether an entry has an alias.
WriterEntry == equivalence_store[RowOf(equivalence_store, s_mn)]
HasAlias(equivalence, alias) == InSeq(Lower(alias), LowerAll(equivalence.aliases))

\* The alias of the call of w, normalized.
AliasOf(w) == EquivalenceManager_normalize_name(writers[w].aliases[1])

\* The call of w found the entry and brought one alias the entry did not
\* have.
AddedNewAlias(w) ==
    /\ ~writers[w].created
    /\ Len(writers[w].aliases) = 1
    /\ ~HasAlias(writers[w].before[RowOf(writers[w].before, s_mn)], AliasOf(w))

\* The two calls the claim is about: both on the entry there is, each
\* with a new alias, the two aliases different.
TwoNewAliases ==
    /\ BothReturned
    /\ \A w \in Writers : AddedNewAlias(w)
    /\ Lower(AliasOf("w1")) # Lower(AliasOf("w2"))

\* The table after the two calls, had each been one step, in their order.
OneAfterTheOther(first, second) ==
    add_equivalence(
        add_equivalence(writers[first].before, writers[first].canonical_name,
                        writers[first].aliases, writers[first].user, FALSE),
        writers[second].canonical_name, writers[second].aliases,
        writers[second].user, FALSE)

\* C24: two add_equivalence calls one after the other leave the table two
\* atomic calls leave, with both aliases in the entry; of two calls that
\* each bring a new alias to the same entry, the alias of one is missing
\* from the entry at the end exactly when the other read the entry before
\* that alias was saved and saved its own instance last.
C24_LostUpdate ==
    /\ (BothReturned /\ Serialized) =>
           \A w \in Writers :
               OtherWriter(w) \in writers[w].after
                   => equivalence_store = OneAfterTheOther(OtherWriter(w), w)
    /\ (TwoNewAliases /\ Serialized) =>
           \A w \in Writers : HasAlias(WriterEntry, AliasOf(w))
    /\ TwoNewAliases =>
           \A w \in Writers :
               ~HasAlias(WriterEntry, AliasOf(w))
                   <=> /\ writers[OtherWriter(w)].read_at < writers[w].first_save
                       /\ writers[w].last_save < writers[OtherWriter(w)].last_save

\* Two interleaved calls have returned and the entry lacks the alias one
\* of them added.
C24_Witness ==
    /\ TwoNewAliases
    /\ ~Serialized
    /\ \E w \in Writers : ~HasAlias(WriterEntry, AliasOf(w))

\* Two calls one after the other have returned and the entry has both
\* aliases.
C24_WitnessSerialized ==
    /\ TwoNewAliases
    /\ Serialized
    /\ \A w \in Writers : HasAlias(WriterEntry, AliasOf(w))

\* Two interleaved calls that lost nothing.
C24_WitnessInterleavedKept ==
    /\ TwoNewAliases
    /\ ~Serialized
    /\ \A w \in Writers : HasAlias(WriterEntry, AliasOf(w))

(***************************************************************************)
(* verify_case on two cases at once: each call is the sequence of its      *)
(* queries, the reads of the three verifiers and the upsert of the report; *)
(* the queries of the two calls interleave.                                *)
(***************************************************************************)

\* The documents of a case that has its three reports, each with fields.
FullCases(case) ==
    { docs \in CaseDocuments(case) :
          /\ Cardinality(docs) = 3
          /\ \A doc \in docs : doc.extracted_patient_name # << >> }

InitInterleaved ==
    /\ ScoreIdle
    /\ NamesIdle /\ WritersIdle /\ VerifyingIdle /\ ProcessorIdle
    /\ equivalence_store \in EngineStoreInputs
    /\ matcher = [constructed |-> TRUE,
                  equivalences |-> load_equivalences(equivalence_store)]
    /\ last_match = NoMatchCall
    /\ last_add = NoAddCall
    /\ \E docs1 \in FullCases("case1"), docs2 \in FullCases("case2") :
           documents = docs1 \cup docs2
    /\ reports = {}
    /\ last_call = NoCall
    /\ verifier_call = NoVerifierCall

\* What the three verifiers can return for the documents a case has now.
ResultsNow(case) ==
    VerifierResultsOf(matcher.equivalences, DocumentsOf(documents, case))

\* A call on another case is between its first query and its last.
OthersBusy(case) ==
    \E other \in Cases \ { case } : verifying[other].pc \notin { "idle", "done" }

\* self.basic_verifier.verify_case(case)
CallBasicVerifier(case) ==
    /\ verifying[case].pc \in { "idle", "done" }
    /\ \E results \in ResultsNow(case) :
           verifying' = [verifying EXCEPT ![case] =
               [pc |-> "supplies", during |-> OthersBusy(case),
                basic_results |-> results[1]]]
    /\ UNCHANGED << matcher_vars, score_call, engine_vars, name_call, writers, processor, cases >>

\* self.supply_verifier.verify_supplies(case)
CallSupplyVerifier(case) ==
    /\ verifying[case].pc = "supplies"
    /\ \E results \in ResultsNow(case) :
           verifying' = [verifying EXCEPT ![case] =
               [pc |-> "traceability",
                during |-> verifying[case].during \/ OthersBusy(case),
                basic_results |-> verifying[case].basic_results,
                supply_results |-> results[2]]]
    /\ UNCHANGED << matcher_vars, score_call, engine_vars, name_call, writers, processor, cases >>

\* self.traceability_verifier.verify_traceability(case)
CallTraceabilityVerifier(case) ==
    /\ verifying[case].pc = "traceability"
    /\ \E results \in ResultsNow(case) :
           verifying' = [verifying EXCEPT ![case] =
               [pc |-> "store",
                during |-> verifying[case].during \/ OthersBusy(case),
                basic_results |-> verifying[case].basic_results,
                supply_results |-> verifying[case].supply_results,
                traceability_results |-> results[3]]]
    /\ UNCHANGED << matcher_vars, score_call, engine_vars, name_call, writers, processor, cases >>

\* The score, the flags and the upsert of the report, or the raise.
StoreResult(case) ==
    /\ verifying[case].pc = "store"
    /\ \E call \in { verify_case(reports, case, verifying[case].basic_results,
                                 verifying[case].supply_results,
                                 verifying[case].traceability_results) } :
           /\ reports' = call.reports
           /\ last_call' = [surgical_case |-> case, raised |-> call.raised,
                            outcome |-> call.outcome, computed |-> call.computed]
           /\ verifying' = [verifying EXCEPT ![case] =
                  [pc |-> "done",
                   during |-> verifying[case].during \/ OthersBusy(case),
                   outcome |-> call.outcome, computed |-> call.computed]]
    /\ UNCHANGED << matcher_vars, score_call, documents, verifier_call, name_call, writers, processor, cases >>

NextInterleaved ==
    \E case \in Cases :
        \/ CallBasicVerifier(case)
        \/ CallSupplyVerifier(case)
        \/ CallTraceabilityVerifier(case)
        \/ StoreResult(case)

SpecInterleaved == InitInterleaved /\ [][NextInterleaved]_vars

\* The last call on the case has returned a report.
Verified(case) ==
    verifying[case].pc = "done" /\ verifying[case].outcome = "returned"

\* What a call on the case alone computes from the documents of the case.
ComputedAlone(case) ==
    { Computed(ReportDefaults(results[1], results[2], results[3])) :
          results \in VerifierResultsOf(matcher.equivalences,
                                        { doc \in documents : doc.surgical_case = case }) }

\* C25: no query of a verify_case call changes a document, a line item or
\* an entry of the equivalences; the report of a case changes only in the
\* upsert of a call on that case; and after a call on a case has returned,
\* whatever the queries of calls on other cases did in between, the report
\* of the case is the one a call on it alone computes from its documents.
C25_OwnReportOnly ==
    /\ [][/\ documents' = documents
          /\ equivalence_store' = equivalence_store
          /\ matcher' = matcher]_vars
    /\ [][\A case \in Cases :
              ReportsOf(reports', case) # ReportsOf(reports, case)
                  => verifying[case].pc = "store" /\ verifying'[case].pc = "done"]_vars
    /\ [](\A case \in Cases :
              Verified(case)
                  => /\ Cardinality(ReportsOf(reports, case)) = 1
                     /\ \A r \in ReportsOf(reports, case) :
                            /\ StoredValues(r) = verifying[case].computed
                            /\ StoredValues(r) \in ComputedAlone(case))

\* The calls on the two cases ran at the same time, both have returned,
\* and the two reports are different.
C25_Witness ==
    /\ \A case \in Cases : Verified(case) /\ verifying[case].during
    /\ \E r1, r2 \in reports :
           /\ r1.surgical_case = "case1" /\ r2.surgical_case = "case2"
           /\ r1.verification_score # r2.verification_score

(***************************************************************************)
(* process_surgical_case as a state machine: the call validates its files  *)
(* and opens a transaction, processes the files one by one, verifies the   *)
(* case, and the transaction ends.                                         *)
(***************************************************************************)

MaxFiles == 4

\* What the parser extracts from a file, or how processing the file fails.
Content(fails, input) ==
    [fails |-> fails, fields |-> input.fields, supplies |-> input.supplies]

PartialInternal ==
    [fields |-> Fields(<< >>, id_21, NoDate, << >>, n_Ted, << >>),
     supplies |-> << Item(s_abcd, 1, c_ref, c_lot, TRUE) >>]
PartialHospital ==
    [fields |-> Fields(n_Ted, << >>, NoDate, t_ab, << >>, << >>),
     supplies |-> << Line(s_Abcd, 1) >>]

FileContents(t) ==
    { Content("none", input) : input \in DocumentInputs(t) }
        \cup (IF t = INTERNAL
              THEN { Content("none", PartialInternal), Content("save", PartialInternal) }
              ELSE IF t = HOSPITAL
              THEN { Content("none", PartialHospital), Content("parse", PartialHospital) }
              ELSE { Content("update", PartialHospital) })

\* case_data of the files: nothing, every field, and some fields of which
\* one is given empty.
CaseDataInputs ==
    { << >>,
      [patient_name |-> n_Sam, patient_id |-> id_1_2, surgery_date |-> d_1,
       city |-> t_ab, doctor_name |-> n_Sammm, procedure |-> s_mn],
      [patient_name |-> << >>, city |-> t_ab] }

\* The lists of files: the three types in every order with every content,
\* and every other list of types with files that would be processed.
FileOf(t, content, case_data) ==
    [document_type |-> t, content |-> content, case_data |-> case_data]

\* A document_type that is none of the three.
other_type == "other"
TypeLists == SeqsUpTo(required_types \cup { other_type }, MaxFiles)
ContentChoices ==
    { c \in [required_types -> UNION { FileContents(t) : t \in required_types }] :
          \A t \in required_types : c[t] \in FileContents(t) }
GoodContents ==
    [t \in required_types \cup { other_type } |->
        Content("none", CHOOSE input \in DocumentInputs(IF t = other_type THEN DESCRIPTION ELSE t) :
                            input.fields.extracted_date = NoDate)]

FilesOf(types, contents, case_data) ==
    [i \in DOMAIN types |-> FileOf(types[i], contents[types[i]], case_data)]

FilesInputs ==
    UNION { { FilesOf(types, contents, case_data) :
                contents \in (IF Len(types) = 3 /\ Range(types) = required_types
                              THEN ContentChoices ELSE { GoodContents }),
                case_data \in CaseDataInputs } :
            types \in TypeLists }

\* The tables before the call: empty, or with a case processed earlier.
PriorCase ==
    LET docs == { DocumentRow("case1", t,
                      CHOOSE input \in DocumentInputs(t) :
                          input.fields.extracted_patient_name # << >>
                              /\ input.fields.extracted_date = NoDate
                              /\ Len(input.supplies) = 1) : t \in required_types }
        results == CHOOSE r \in VerifierResultsOf(
                                    load_equivalences(CHOOSE e \in EngineStoreInputs : TRUE),
                                    docs) : TRUE
    IN  Tables({ update_case_data(
                     create_surgical_case(<< [case_data |-> << >>] >>, "case1"),
                     INTERNAL,
                     (CHOOSE doc \in docs : doc.document_type = INTERNAL)) },
               { StoredDocument(doc, PROCESSED) : doc \in docs },
               verify_case({}, "case1", results[1], results[2], results[3]).reports)

PriorTables == { Tables({}, {}, {}), PriorCase }

InitProcessor ==
    /\ ScoreIdle
    /\ NamesIdle /\ WritersIdle /\ VerifyingIdle
    /\ equivalence_store \in EngineStoreInputs
    /\ matcher = [constructed |-> TRUE,
                  equivalences |-> load_equivalences(equivalence_store)]
    /\ last_match = NoMatchCall
    /\ last_add = NoAddCall
    /\ last_call = NoCall
    /\ verifier_call = NoVerifierCall
    /\ processor = NoProcessor
    /\ \E prior \in PriorTables :
           /\ cases = prior.cases
           /\ documents = prior.documents
           /\ reports = prior.reports

\* The tables as they are stored, and _generate_case_number: a number no
\* case has.
Stored == Tables(cases, documents, reports)
NewCaseNumber ==
    CHOOSE n \in Cases : \A c \in cases : c.case_number # n

\* process_surgical_case(files_data, user) up to the first document: the
\* files are rejected, or the transaction begins and the case is created.
ProcessSurgicalCase(files_data) ==
    /\ processor.pc = "idle"
    /\ processor' =
           IF ~ValidFiles(files_data)
           THEN [pc |-> "ended", outcome |-> "DocumentProcessingError",
                 files_data |-> files_data, created |-> FALSE,
                 before |-> Stored, tx |-> Stored]
           ELSE [pc |-> "documents", outcome |-> "none", files_data |-> files_data,
                 remaining |-> files_data, case_number |-> NewCaseNumber,
                 created |-> TRUE, before |-> Stored,
                 tx |-> [Stored EXCEPT !.cases =
                            @ \cup { create_surgical_case(files_data, NewCaseNumber) }]]
    /\ UNCHANGED << matcher_vars, score_call, engine_vars, name_call, writers, verifying, cases >>

\* The case of the call as the transaction has it.
CaseOf(tables, case_number) ==
    CHOOSE c \in tables.cases : c.case_number = case_number

\* self._process_document(case, file_data) for the next file.
ProcessDocument ==
    /\ processor.pc = "documents"
    /\ \E done \in { process_document(processor.tx,
                                       CaseOf(processor.tx, processor.case_number),
                                       Head(processor.remaining)) } :
           processor' = [processor EXCEPT
               !.tx = done.tables,
               !.remaining = Tail(@),
               !.pc = IF done.raised THEN "raised"
                      ELSE IF Tail(processor.remaining) = << >> THEN "verify"
                      ELSE "documents"]
    /\ UNCHANGED << matcher_vars, score_call, engine_vars, name_call, writers, verifying, cases >>

\* self.verification_engine.verify_case(case), in the transaction.
VerifyProcessedCase ==
    /\ processor.pc = "verify"
    /\ \E results \in VerifierResultsOf(
                          matcher.equivalences,
                          Extracted(DocumentsOf(processor.tx.documents,
                                                processor.case_number))) :
       \E call \in { verify_case(processor.tx.reports, processor.case_number,
                                 results[1], results[2], results[3]) } :
           processor' = [processor EXCEPT
               !.tx = [@ EXCEPT !.reports = call.reports],
               !.pc = IF call.outcome = "returned" THEN "return" ELSE "raised"]
    /\ UNCHANGED << matcher_vars, score_call, engine_vars, name_call, writers, verifying, cases >>

\* The block of transaction.atomic() is left, by the return or by the
\* exception, and the call ends.
LeaveTransaction ==
    /\ processor.pc \in { "return", "raised" }
    /\ \E after \in { EndTransaction(processor.before, processor.tx,
                                     processor.pc = "raised") } :
           /\ cases' = after.cases
           /\ documents' = after.documents
           /\ reports' = after.reports
    /\ processor' = [processor EXCEPT
           !.pc = "ended",
           !.outcome = IF processor.pc = "return" THEN "returned"
                       ELSE "DocumentProcessingError"]
    /\ UNCHANGED << matcher_vars, score_call, last_call, verifier_call, name_call, writers, verifying >>

NextProcessor ==
    \/ \E files_data \in FilesInputs : ProcessSurgicalCase(files_data)
    \/ ProcessDocument
    \/ VerifyProcessedCase
    \/ LeaveTransaction

SpecProcessor == InitProcessor /\ [][NextProcessor]_vars

\* The call has ended, by the return or by DocumentProcessingError.
Ended == processor.pc = "ended"
ReturnedCase == Ended /\ processor.outcome = "returned"
RaisedProcessingError == Ended /\ processor.outcome = "DocumentProcessingError"

\* The rows of the returned case: three documents, one of each type, all
\* PROCESSED, and one report.
ThreeProcessedAndReport(case_number) ==
    /\ Cardinality({ c \in cases : c.case_number = case_number }) = 1
    /\ Cardinality(DocumentsOf(documents, case_number)) = 3
    /\ \A t \in required_types :
           \E doc \in DocumentsOf(documents, case_number) :
               doc.document_type = t /\ doc.status = PROCESSED
    /\ Cardinality({ r \in reports : r.surgical_case = case_number }) = 1

\* C26: process_surgical_case is all-or-nothing.  A call that returns
\* leaves its case with exactly three PROCESSED documents, one of each
\* type, and one report, next to the rows there were; a call that raises
\* DocumentProcessingError leaves the tables as they were before it; files
\* that are not exactly the three types are rejected before anything is
\* created; and no document in the status PROCESSING or ERROR is stored
\* once the call has ended.
C26_AllOrNothing ==
    /\ \A doc \in documents : doc.status = PROCESSED
    /\ Ended =>
           /\ ReturnedCase \/ RaisedProcessingError
           /\ ReturnedCase =>
                  /\ ValidFiles(processor.files_data)
                  /\ ThreeProcessedAndReport(processor.case_number)
                  /\ processor.before.cases \subseteq cases
                  /\ processor.before.documents \subseteq documents
                  /\ processor.before.reports \subseteq reports
                  /\ \A c \in cases \ processor.before.cases :
                         c.case_number = processor.case_number
                  /\ \A doc \in documents \ processor.before.documents :
                         doc.surgical_case = processor.case_number
                  /\ \A r \in reports \ processor.before.reports :
                         r.surgical_case = processor.case_number
           /\ RaisedProcessingError => Stored = processor.before
           /\ ~ValidFiles(processor.files_data) =>
                  RaisedProcessingError /\ processor.tx = processor.before

\* A call returned its case next to the case there was before.
C26_Witness ==
    ReturnedCase /\ processor.before.cases # {} /\ cases # processor.before.cases

\* A call raised after the transaction held a document in the status ERROR
\* and another PROCESSED, and nothing of it is left.
C26_WitnessRolledBack ==
    /\ RaisedProcessingError
    /\ \E doc \in processor.tx.documents : doc.status = ERROR
    /\ \E doc \in processor.tx.documents \ processor.before.documents :
           doc.status = PROCESSED
    /\ processor.before.cases # {}

\* A call raised with the three documents processed, in the verification.
C26_WitnessVerificationFailed ==
    /\ RaisedProcessingError
    /\ Cardinality(processor.tx.documents \ processor.before.documents) = 3
    /\ \A doc \in processor.tx.documents : doc.status = PROCESSED

\* Three files of three types of which one is none of the required ones
\* were rejected.
C26_WitnessRejected ==
    /\ RaisedProcessingError
    /\ Len(processor.files_data) = 3
    /\ Cardinality(doc_types(processor.files_data)) = 3
    /\ ~ValidFiles(processor.files_data)

\* The three documents of the call have been processed.
ThreeProcessed ==
    /\ processor.pc \in { "verify", "return", "raised", "ended" }
    /\ ValidFiles(processor.files_data)
    /\ Cardinality({ doc \in processor.tx.documents \ processor.before.documents :
                         doc.status = PROCESSED }) = 3

\* The fields of the case with the extracted fields they are updated from
\* and the values _create_surgical_case gives them without case_data.
CaseFields ==
    { << "patient_name", "extracted_patient_name", por_definir >>,
      << "patient_id", "extracted_patient_id", << >> >>,
      << "city", "extracted_city", << >> >>,
      << "doctor_name", "extracted_doctor", << >> >>,
      << "procedure", "extracted_procedure", << >> >> }

ExtractedOf(file_data, extracted_field) == file_data.content.fields[extracted_field]
InternalFile(files_data) ==
    files_data[CHOOSE i \in DOMAIN files_data : files_data[i].document_type = INTERNAL]
InitialValue(files_data, field) ==
    Get(files_data[1].case_data, field[1], field[3])
FirstOfOthers(files_data, extracted_field) ==
    LET i == CHOOSE i \in DOMAIN files_data :
                 /\ files_data[i].document_type # INTERNAL
                 /\ ExtractedOf(files_data[i], extracted_field) # << >>
                 /\ \A j \in 1..(i - 1) :
                        \/ files_data[j].document_type = INTERNAL
                        \/ ExtractedOf(files_data[j], extracted_field) = << >>
    IN  ExtractedOf(files_data[i], extracted_field)
OthersHave(files_data, extracted_field) ==
    \E i \in DOMAIN files_data :
        /\ files_data[i].document_type # INTERNAL
        /\ ExtractedOf(files_data[i], extracted_field) # << >>

\* The value the priority gives a field of the case.
ByPriority(files_data, field) ==
    IF ExtractedOf(InternalFile(files_data), field[2]) # << >>
    THEN ExtractedOf(InternalFile(files_data), field[2])
    ELSE IF InitialValue(files_data, field) # << >>
    THEN InitialValue(files_data, field)
    ELSE IF OthersHave(files_data, field[2])
    THEN FirstOfOthers(files_data, field[2])
    ELSE << >>

\* C27: after the three documents of a case have been processed, in any
\* order, each of patient_name, patient_id, city, doctor_name and procedure
\* of the case is the internal document's extracted value when that is
\* non-empty, else the initial value of the case when that was non-empty,
\* else the first non-empty extracted value of the hospital and description
\* documents in processing order; and the case a call returns is stored
\* with these values.
C27_FieldPriority ==
    ThreeProcessed =>
        \A field \in CaseFields :
            /\ CaseOf(processor.tx, processor.case_number)[field[1]]
                   = ByPriority(processor.files_data, field)
            /\ ReturnedCase =>
                   CaseOf(Stored, processor.case_number)[field[1]]
                       = ByPriority(processor.files_data, field)

\* The internal document replaced a non-empty initial value that the
\* document processed before it had left, and the documents after it left
\* the internal value.
C27_Witness ==
    /\ ThreeProcessed
    /\ processor.files_data[2].document_type = INTERNAL
    /\ \E field \in CaseFields :
           /\ InitialValue(processor.files_data, field) # << >>
           /\ \A i \in 1..3 : ExtractedOf(processor.files_data[i], field[2]) # << >>
           /\ Cardinality({ ExtractedOf(processor.files_data[i], field[2]) : i \in 1..3 }
                              \cup { InitialValue(processor.files_data, field) }) >= 3
           /\ CaseOf(processor.tx, processor.case_number)[field[1]]
                  = ExtractedOf(processor.files_data[2], field[2])

\* The internal document and the initial case had nothing for a field, the
\* hospital and description documents had different values, and the case
\* has the value of the one processed first.
C27_WitnessFirstOfOthers ==
    /\ ThreeProcessed
    /\ \E field \in CaseFields :
           /\ ExtractedOf(InternalFile(processor.files_data), field[2]) = << >>
           /\ InitialValue(processor.files_data, field) = << >>
           /\ \E i, j \in 1..3 :
                  /\ i < j
                  /\ processor.files_data[i].document_type # INTERNAL
                  /\ processor.files_data[j].document_type # INTERNAL
                  /\ ExtractedOf(processor.files_data[i], field[2]) # << >>
                  /\ ExtractedOf(processor.files_data[j], field[2]) # << >>
                  /\ ExtractedOf(processor.files_data[i], field[2])
                         # ExtractedOf(processor.files_data[j], field[2])
                  /\ CaseOf(processor.tx, processor.case_number)[field[1]]
                         = ExtractedOf(processor.files_data[i], field[2])

\* The internal document had nothing for a field and the case kept its
\* non-empty initial value, which no document has.
C27_WitnessInitial ==
    /\ ThreeProcessed
    /\ \E field \in CaseFields :
           /\ ExtractedOf(InternalFile(processor.files_data), field[2]) = << >>
           /\ InitialValue(processor.files_data, field) # << >>
           /\ \E i \in 1..3 :
                  /\ ExtractedOf(processor.files_data[i], field[2]) # << >>
                  /\ ExtractedOf(processor.files_data[i], field[2])
                         # InitialValue(processor.files_data, field)
           /\ CaseOf(processor.tx, processor.case_number)[field[1]]
                  = InitialValue(processor.files_data, field)

(***************************************************************************)
(* Properties of the stored reports (under Spec)                           *)
(***************************************************************************)

\* C28: for every report verify_case stored, overall_status is APROBADO
\* exactly when basic_data_match, supplies_match and traceability_complete
\* are all true, and REQUIERE_REVISION otherwise; RECHAZADO is the status
\* of no report of the engine.
C28_OverallStatus ==
    \A report \in reports :
        /\ overall_status(report) = APROBADO <=> AllFlags(report)
        /\ ~AllFlags(report) => overall_status(report) = REQUIERE_REVISION
        /\ overall_status(report) # RECHAZADO

\* A report with the three flags is stored, APROBADO.
C28_Witness ==
    \E report \in reports :
        AllFlags(report) /\ overall_status(report) = APROBADO

\* A report without one of the flags and with a score of 85 or more is
\* stored, REQUIERE_REVISION.
C28_WitnessReview ==
    \E report \in reports :
        /\ ~AllFlags(report)
        /\ report.verification_score >= 100 * review_threshold
        /\ overall_status(report) = REQUIERE_REVISION

\* The score of the least percentages with which the three verifiers set
\* their flags.
LeastPassingScore ==
    calculate_overall_score(
        [match_percentage |-> Rat(basic_match_threshold, 1)],
        [match_percentage |-> Rat(supplies_match_threshold, 1)],
        [completion_percentage |-> Rat(traceability_threshold, 1)])

\* C29: when the basic data match, the supplies match and the traceability
\* is complete, the score is 85 or more (it is so already for the least
\* percentages that set the three flags); so in every report verify_case
\* stored, requires_review is false exactly when the three flags are true,
\* and the score alone never asks for the review.
C29_ReviewIffFlag ==
    /\ LeastPassingScore >= 100 * review_threshold
    /\ \A report \in reports :
           /\ AllFlags(report) => report.verification_score >= 100 * review_threshold
           /\ ~report.requires_review <=> AllFlags(report)
    /\ last_call.computed.stored =>
           /\ AllFlags(last_call.computed)
                  => last_call.computed.verification_score >= 100 * review_threshold
           /\ ~last_call.computed.requires_review <=> AllFlags(last_call.computed)

\* A report with the three flags and a score below 100 is stored, and it
\* asks for no review.
C29_Witness ==
    \E report \in reports :
        /\ AllFlags(report)
        /\ report.verification_score < 10000
        /\ ~report.requires_review

\* A report whose score is below 85 is stored: one of its flags is false.
C29_WitnessLowScore ==
    \E report \in reports :
        /\ report.verification_score < 100 * review_threshold
        /\ report.verification_score > 0
        /\ report.requires_review
        /\ ~AllFlags(report)

(***************************************************************************)
(* Properties of verify_supplies item by item (under SpecVerifiers)        *)
(***************************************************************************)

\* The items of the internal report in the call, and the call's input with
\* item i as the only item of the internal report.
BaselineItems == Get(verifier_call.input, INTERNAL, << >>)
OnlyItem(i) == [verifier_call.input EXCEPT ![INTERNAL] = << @[i] >>]

\* C30: verify_supplies reconciles each item of the internal report on its
\* own: the result for an item (its matches, name_match, quantity_match)
\* is the one verify_supplies gives for that item alone with the same
\* hospital and description lists, whatever the other items of the
\* internal report and their order; an item of the hospital or of the
\* description that reconciled one item is still there for the others.
C30_ItemsIndependent ==
    SuppliesVerified =>
        /\ Len(verifier_call.result.supplies_details) = Len(BaselineItems)
        /\ \A i \in DOMAIN BaselineItems :
               verifier_call.result.supplies_details[i]
                   = verify_supplies(matcher.equivalences,
                                     OnlyItem(i)).supplies_details[1]

\* Two items of the internal report were reconciled, in name and quantity,
\* by the one item of the hospital's report.
C30_Witness ==
    /\ SuppliesVerified
    /\ Len(Get(verifier_call.input, HOSPITAL, << >>)) = 1
    /\ \E i, j \in DOMAIN verifier_call.result.supplies_details :
           /\ i < j
           /\ verifier_call.result.supplies_details[i].hospital_matches # << >>
           /\ verifier_call.result.supplies_details[i].hospital_matches
                  = verifier_call.result.supplies_details[j].hospital_matches
           /\ verifier_call.result.supplies_details[i].name_match
           /\ verifier_call.result.supplies_details[i].quantity_match
           /\ verifier_call.result.supplies_details[j].name_match
           /\ verifier_call.result.supplies_details[j].quantity_match

\* Two different items of the internal report, one reconciled and one not,
\* in a call that has more than one item in the other reports.
C30_WitnessMixed ==
    /\ SuppliesVerified
    /\ Len(Get(verifier_call.input, HOSPITAL, << >>)) = 2
    /\ \E i, j \in DOMAIN verifier_call.result.supplies_details :
           /\ i < j
           /\ ~verifier_call.result.supplies_details[i].name_match
           /\ verifier_call.result.supplies_details[j].name_match
           /\ verifier_call.result.supplies_details[j].quantity_match

=============================================================================
